---------------------------- MODULE Spec2Model ----------------------------
(***************************************************************************)
(* uwufetch-rs: the fact registry (SystemInfo), the per-fact source probes *)
(* of src/info.rs on a Linux host, the populate orchestration with its     *)
(* three spawned tasks, and the run of main around it.                     *)
(*                                                                         *)
(* Text is modelled by TLA+ strings, taken apart with Len, SubSeq and \o,  *)
(* so that every parse below is computed character by character as the     *)
(* Rust code computes it.                                                  *)
(***************************************************************************)
EXTENDS Integers, Sequences, FiniteSets, TLC

VARIABLES
    env,              \* the host: pseudo-files, utilities, environment variables
    overflow_checks,  \* the build: TRUE when integer overflow panics (debug profile)
    args,             \* the parsed command line
    config,           \* the Configuration in force
    file_overrides,   \* the distro and image overrides of the configuration file
    info,             \* the fact registry, SystemInfo
    pc,               \* position of the main thread
    task,             \* state of each spawned thread
    result,           \* value returned by each terminated thread
    launch_info,      \* the registry as it was when the first spawn was reached
    trace,            \* the operations performed so far, in order
    prior             \* history: what earlier calls of populate and earlier runs left

vars == <<env, overflow_checks, args, config, file_overrides, info, pc, task, result,
          launch_info, trace, prior>>

-----------------------------------------------------------------------------
(* Bounds *)

\* width used for the u64 fields (scaled down from 64)
U64Bits == 16

U64Mod == 2 ^ U64Bits

\* the largest value parse::<u32> accepts (scaled down from 2^32 - 1)
U32Max == 9999

\* how many times populate is called on one registry in a session
MaxCalls == 2

\* how many times the program is run on one host in a session
MaxRuns == 2

-----------------------------------------------------------------------------
(* str methods *)

DigitVal(c) ==
    CASE c = "0" -> 0 [] c = "1" -> 1 [] c = "2" -> 2 [] c = "3" -> 3
      [] c = "4" -> 4 [] c = "5" -> 5 [] c = "6" -> 6 [] c = "7" -> 7
      [] c = "8" -> 8 [] c = "9" -> 9

CharAt(s, i) == SubSeq(s, i, i)

From(s, i) == SubSeq(s, i, Len(s))

\* the least element of a set of positions, 0 for the empty set
First(S) == IF S = {} THEN 0 ELSE CHOOSE x \in S : \A y \in S : x <= y

\* the greatest element of a set of positions, 0 for the empty set
Last(S) == IF S = {} THEN 0 ELSE CHOOSE x \in S : \A y \in S : x >= y

\* the positions of s whose character is not in the set cs
Kept(s, cs) == {k \in 1..Len(s) : CharAt(s, k) \notin cs}

\* s from position i on, nothing when i = 0
FromOrNone(s, i) == IF i = 0 THEN "" ELSE From(s, i)

\* s without its leading characters that are in cs
StripStart(s, cs) == FromOrNone(s, First(Kept(s, cs)))

\* s without its trailing characters that are in cs
StripEnd(s, cs) == SubSeq(s, 1, Last(Kept(s, cs)))

Whitespace == {" ", "\n", "\t", "\r"}

Trim(s) == StripEnd(StripStart(s, Whitespace), Whitespace)

TrimMatches(s, c) == StripEnd(StripStart(s, {c}), {c})

StartsWith(s, p) == Len(s) >= Len(p) /\ SubSeq(s, 1, Len(p)) = p

\* str::find: index of the first occurrence of p in s, 0 when there is none
Find(s, p) == First({k \in 1..(Len(s) - Len(p) + 1) : SubSeq(s, k, k + Len(p) - 1) = p})

Contains(s, p) == Find(s, p) > 0

\* str::split(char): the pieces between occurrences of c, empty pieces kept
RECURSIVE Split(_, _)
SplitAt(s, c, i) ==
    IF i = 0 THEN <<s>> ELSE <<SubSeq(s, 1, i - 1)>> \o Split(From(s, i + 1), c)

Split(s, c) == SplitAt(s, c, Find(s, c))

\* str::split_once(c): the text before and after the first c
Before(s, i) == SubSeq(s, 1, i - 1)

After(s, i) == From(s, i + 1)

\* str::lines(): split at "\n", a trailing "\r" removed, no final empty line
DropFinalEmpty(raw) ==
    IF raw[Len(raw)] = "" THEN SubSeq(raw, 1, Len(raw) - 1) ELSE raw

EachStripCr(ls) ==
    [k \in 1..Len(ls) |->
        IF Len(ls[k]) > 0 /\ CharAt(ls[k], Len(ls[k])) = "\r"
        THEN SubSeq(ls[k], 1, Len(ls[k]) - 1) ELSE ls[k]]

Lines(s) == EachStripCr(DropFinalEmpty(Split(s, "\n")))

\* str::split_whitespace(): the maximal runs of non-whitespace characters
RECURSIVE SplitWhitespace(_)
WordThenRest(t, ws) ==
    IF t = "" THEN <<>>
    ELSE IF ws = 0 THEN <<t>>
    ELSE <<SubSeq(t, 1, ws - 1)>> \o SplitWhitespace(From(t, ws))

SplitWhitespace(s) ==
    WordThenRest(StripStart(s, Whitespace),
                 First({k \in 1..Len(StripStart(s, Whitespace)) :
                           CharAt(StripStart(s, Whitespace), k) \in Whitespace}))

\* str::rsplit(c).next(): the piece after the last c
LastPiece(s, c) == Split(s, c)[Len(Split(s, c))]

\* the value of a string of decimal digits, -1 once it exceeds max
RECURSIVE DigitsVal(_, _, _)
DigitsStep(s, v, max) == IF v > max THEN -1 ELSE DigitsVal(From(s, 2), v, max)

DigitsVal(s, acc, max) ==
    IF s = "" THEN acc ELSE DigitsStep(s, acc * 10 + DigitVal(CharAt(s, 1)), max)

AllDigits(s) ==
    \A k \in 1..Len(s) :
        CharAt(s, k) \in {"0", "1", "2", "3", "4", "5", "6", "7", "8", "9"}

Failed == [ok |-> FALSE, val |-> 0]

InRange(v) == IF v < 0 THEN Failed ELSE [ok |-> TRUE, val |-> v]

ParseDigits(d, max) ==
    IF d = "" \/ ~AllDigits(d) THEN Failed ELSE InRange(DigitsVal(d, 0, max))

\* str::parse::<uN>(): Ok for an optional '+' and at least one digit, in range
ParseUnsigned(s, max) == ParseDigits(IF StartsWith(s, "+") THEN From(s, 2) ELSE s, max)

\* Result::unwrap_or(0)
UnwrapOr0(p) == IF p.ok THEN p.val ELSE 0

\* the integer part as u64: the cast saturates
SecondsOf(int, frc) ==
    IF (int = "" /\ frc = "") \/ ~AllDigits(int) \/ ~AllDigits(frc) THEN Failed
    ELSE [ok |-> TRUE,
          val |-> IF DigitsVal(int, 0, U64Mod - 1) < 0 THEN U64Mod - 1
                  ELSE DigitsVal(int, 0, U64Mod - 1)]

\* str::parse::<f64>() followed by `as u64`, for plain decimal notation
ParseSeconds(s) ==
    IF Find(s, ".") = 0 THEN SecondsOf(s, "")
    ELSE SecondsOf(Before(s, Find(s, ".")), After(s, Find(s, ".")))

\* Vec<String>::join(sep)
RECURSIVE JoinStr(_, _)
JoinStr(parts, sep) ==
    IF Len(parts) = 0 THEN ""
    ELSE IF Len(parts) = 1 THEN parts[1]
    ELSE parts[1] \o sep \o JoinStr(Tail(parts), sep)

\* str::replace(from, to): every non-overlapping occurrence, left to right
RECURSIVE Replace(_, _, _)
ReplaceAt(s, from, to, i) ==
    IF i = 0 THEN s
    ELSE SubSeq(s, 1, i - 1) \o to \o Replace(From(s, i + Len(from)), from, to)

Replace(s, from, to) == ReplaceAt(s, from, to, Find(s, from))

InSeq(x, sq) == \E k \in 1..Len(sq) : sq[k] = x

-----------------------------------------------------------------------------
(* The fact registry *)

None == [some |-> FALSE, val |-> ""]

Some(v) == [some |-> TRUE, val |-> v]

\* an or_else that prefers its second operand
SecondFirst(a, b) == IF b.some THEN b ELSE a

\* Option::or_else
OrElse(a, b) == IF a.some THEN a ELSE b

\* SystemInfo::default(): every field empty or zero
DefaultInfo ==
    [user |-> "", host |-> "", os_name |-> "", kernel |-> "", model |-> "",
     cpu_model |-> "", gpu_models |-> <<>>, ram_total |-> 0, ram_used |-> 0,
     screen_width |-> 0, screen_height |-> 0, shell |-> "", pkgs |-> 0,
     pkgman_name |-> "", uptime |-> 0, image_name |-> None]

-----------------------------------------------------------------------------
(* The host.  A pseudo-file, an environment variable or the output of a    *)
(* utility is a record: present (readable / set / spawned) and its text.   *)

Absent == [present |-> FALSE, text |-> ""]

Text(t) == [present |-> TRUE, text |-> t]

\* a host on which no source of any probe exists
BareHost ==
    [USER |-> Absent, SHELL |-> Absent, DISPLAY |-> Absent, PATH |-> {},
     proc_hostname |-> Absent, etc_hostname |-> Absent, hostname_out |-> Absent,
     os_release |-> Absent, debian_version |-> FALSE, arch_release |-> FALSE,
     fedora_release |-> FALSE,
     proc_osrelease |-> Absent, uname_out |-> Absent,
     product_version |-> Absent, product_name |-> Absent, board_name |-> Absent,
     cpuinfo |-> Absent, meminfo |-> Absent, proc_uptime |-> Absent,
     fb0_virtual_size |-> Absent, xrandr_out |-> Absent,
     lspci_out |-> Absent, drm |-> [present |-> FALSE, cards |-> <<>>],
     dpkg_status |-> Absent, pacman_local |-> [present |-> FALSE, entries |-> <<>>],
     rpm_out |-> Absent, flatpak_out |-> Absent, snap_out |-> Absent,
     HOME |-> Absent, config_file |-> Absent, cache_file |-> Absent,
     cache_creatable |-> FALSE]

\* which(cmd): some directory of PATH holds a file of that name
which(e, cmd) == cmd \in e.PATH

-----------------------------------------------------------------------------
(* The cheap probes, SystemInfo methods: each maps the registry and the    *)
(* host to the registry after the call.                                    *)

\* USER when it is set, then the host name from the first source that can
\* be read
get_user_host_fast(i, e) ==
    [i EXCEPT
        !.user = IF e.USER.present THEN e.USER.text ELSE @,
        !.host = IF e.proc_hostname.present THEN Trim(e.proc_hostname.text)
                 ELSE IF e.etc_hostname.present THEN Trim(e.etc_hostname.text)
                 ELSE IF e.hostname_out.present THEN Trim(e.hostname_out.text)
                 ELSE @]

NotFound == [found |-> FALSE, val |-> ""]

\* the value of the first line of the release file that starts with "ID="
RECURSIVE FirstIdLine(_)
FirstIdLine(ls) ==
    IF Len(ls) = 0 THEN NotFound
    ELSE IF StartsWith(ls[1], "ID=")
    THEN [found |-> TRUE, val |-> TrimMatches(From(ls[1], 4), "\"")]
    ELSE FirstIdLine(Tail(ls))

\* the Arch marker tested before the Debian one
ArchBeforeDebian(id, e) ==
    IF id.found THEN id.val
    ELSE IF e.arch_release THEN "arch"
    ELSE IF e.debian_version THEN "debian"
    ELSE IF e.fedora_release THEN "fedora"
    ELSE "unknown"

\* the marker files in their fixed order, then the literal "unknown"
distro_or_markers(id, e) ==
    IF id.found THEN id.val
    ELSE IF e.debian_version THEN "debian"
    ELSE IF e.arch_release THEN "arch"
    ELSE IF e.fedora_release THEN "fedora"
    ELSE "unknown"

detect_distro(e) ==
    distro_or_markers(IF e.os_release.present THEN FirstIdLine(Lines(e.os_release.text))
                      ELSE NotFound, e)

get_os_info(i, e) == [i EXCEPT !.os_name = detect_distro(e)]

get_kernel_fast(i, e) ==
    IF e.proc_osrelease.present THEN [i EXCEPT !.kernel = Trim(e.proc_osrelease.text)]
    ELSE IF e.uname_out.present THEN [i EXCEPT !.kernel = Trim(e.uname_out.text)]
    ELSE i

Sentinel == "To Be Filled By O.E.M."

\* the first file whose trimmed content is neither empty nor the sentinel
RECURSIVE FirstModel(_)
\* get_model without the sentinel test
KeepsSentinel(fs, content) ==
    IF fs[1].present /\ content # ""
    THEN [found |-> TRUE, val |-> content]
    ELSE FirstModel(Tail(fs))

ModelOr(fs, content) ==
    IF fs[1].present /\ content # "" /\ content # Sentinel
    THEN [found |-> TRUE, val |-> content]
    ELSE FirstModel(Tail(fs))

FirstModel(fs) == IF Len(fs) = 0 THEN NotFound ELSE ModelOr(fs, Trim(fs[1].text))

SetModel(i, m) == IF m.found THEN [i EXCEPT !.model = m.val] ELSE i

get_model(i, e) ==
    SetModel(i, FirstModel(<<e.product_version, e.product_name, e.board_name>>))

\* the loop of get_cpu over the lines: brand and count after the last line
RECURSIVE CpuScan(_, _, _)
BrandOf(parts, brand) == IF Len(parts) >= 2 THEN Trim(parts[2]) ELSE brand

CpuScan(ls, brand, count) ==
    IF Len(ls) = 0 THEN [brand |-> brand, count |-> count]
    ELSE IF StartsWith(ls[1], "model name")
    THEN CpuScan(Tail(ls), BrandOf(Split(ls[1], ":"), brand), count + 1)
    ELSE CpuScan(Tail(ls), brand, count)

SetCpu(i, r) ==
    IF r.brand # "" THEN [i EXCEPT !.cpu_model = r.brand]
    ELSE [i EXCEPT !.cpu_model = ToString(r.count) \o " Cores"]

get_cpu(i, e) ==
    IF e.cpuinfo.present THEN SetCpu(i, CpuScan(Lines(e.cpuinfo.text), "", 0))
    ELSE [i EXCEPT !.cpu_model = "Unknown CPU"]

\* the value of a "Key:   1234 kB" line: second whitespace-separated word
SecondWord(w, cur) ==
    IF Len(w) >= 2 THEN UnwrapOr0(ParseUnsigned(w[2], U64Mod - 1)) ELSE cur

RECURSIVE MemScan(_, _, _)
MemScan(ls, total, available) ==
    IF Len(ls) = 0 THEN [total |-> total, available |-> available]
    ELSE IF StartsWith(ls[1], "MemTotal:")
    THEN MemScan(Tail(ls), SecondWord(SplitWhitespace(ls[1]), total), available)
    ELSE IF StartsWith(ls[1], "MemAvailable:")
    THEN MemScan(Tail(ls), total, SecondWord(SplitWhitespace(ls[1]), available))
    ELSE MemScan(Tail(ls), total, available)

\* the unsigned subtraction total - available: when it would go below zero a
\* build with overflow checks panics, any other build wraps
SetMemory(i, r, checks) ==
    IF r.available > r.total /\ checks
    THEN [panicked |-> TRUE, info |-> i]
    ELSE [panicked |-> FALSE,
          info |-> [i EXCEPT !.ram_total = r.total \div 1024,
                             !.ram_used = ((r.total - r.available) % U64Mod) \div 1024]]

get_memory(i, e, checks) ==
    IF e.meminfo.present THEN SetMemory(i, MemScan(Lines(e.meminfo.text), 0, 0), checks)
    ELSE [panicked |-> FALSE, info |-> i]

\* get_shell with a compiled-in shell name when SHELL is unset
ShellOrSh(i, e) ==
    [i EXCEPT !.shell = IF e.SHELL.present THEN LastPiece(e.SHELL.text, "/") ELSE "sh"]

get_shell(i, e) ==
    IF e.SHELL.present THEN [i EXCEPT !.shell = LastPiece(e.SHELL.text, "/")] ELSE i

SetUptime(i, p) == IF p.ok THEN [i EXCEPT !.uptime = p.val] ELSE i

FirstWordSeconds(w) == IF Len(w) >= 1 THEN ParseSeconds(w[1]) ELSE Failed

get_uptime(i, e) ==
    IF e.proc_uptime.present
    THEN SetUptime(i, FirstWordSeconds(SplitWhitespace(e.proc_uptime.text)))
    ELSE i

-----------------------------------------------------------------------------
(* The costly probes: free functions of the host alone *)

\* the pieces of the line between double quotes: pieces 6 and 8 (indices 5
\* and 7 from zero) are joined when there are at least ten pieces
PartsEntry(parts, line) ==
    IF Len(parts) >= 10 /\ Trim(Trim(parts[6]) \o " " \o Trim(parts[8])) # ""
    THEN Trim(Trim(parts[6]) \o " " \o Trim(parts[8]))
    ELSE line

\* the entries pushed for the display-device lines of `lspci -mm -nn`
RECURSIVE LspciScan(_)
LspciScan(ls) ==
    IF Len(ls) = 0 THEN <<>>
    ELSE IF \/ Contains(ls[1], "VGA compatible controller")
            \/ Contains(ls[1], "3D controller")
            \/ Contains(ls[1], "Display controller")
    THEN <<PartsEntry(Split(ls[1], "\""), ls[1])>> \o LspciScan(Tail(ls))
    ELSE LspciScan(Tail(ls))

\* the last DRIVER= line of a uevent file, trimmed
RECURSIVE DriverOf(_, _)
DriverOf(ls, cur) ==
    IF Len(ls) = 0 THEN cur
    ELSE IF StartsWith(ls[1], "DRIVER=")
    THEN DriverOf(Tail(ls), Some(Trim(From(ls[1], 8))))
    ELSE DriverOf(Tail(ls), cur)

CardDriver(c) ==
    IF StartsWith(c.name, "card") /\ c.uevent.present
    THEN DriverOf(Lines(c.uevent.text), None)
    ELSE None

PushNew(gpus, d) == IF d.some /\ ~InSeq(d.val, gpus) THEN Append(gpus, d.val) ELSE gpus

RECURSIVE DrmScan(_, _)
DrmScan(cards, gpus) ==
    IF Len(cards) = 0 THEN gpus
    ELSE DrmScan(Tail(cards), PushNew(gpus, CardDriver(cards[1])))

detect_gpus(e) ==
    IF which(e, "lspci") /\ e.lspci_out.present
    THEN LspciScan(Lines(e.lspci_out.text))
    ELSE IF e.drm.present THEN DrmScan(e.drm.cards, <<>>)
    ELSE <<>>

NoSize == [ok |-> FALSE, w |-> 0, h |-> 0]

Size(w, h) == IF w.ok /\ h.ok THEN [ok |-> TRUE, w |-> w.val, h |-> h.val] ELSE NoSize

\* the framebuffer geometry "W,H"
FbPair(it) ==
    IF Len(it) >= 2 THEN Size(ParseUnsigned(it[1], U32Max), ParseUnsigned(it[2], U32Max))
    ELSE NoSize

FbSize(text) == FbPair(Split(Trim(text), ","))

\* the words after the token "current": first and third, the third without
\* trailing commas
TailSize(it) ==
    IF Len(it) >= 3
    THEN Size(ParseUnsigned(it[1], U32Max), ParseUnsigned(StripEnd(it[3], {","}), U32Max))
    ELSE NoSize

SizeAfter(line, idx) ==
    IF idx = 0 THEN NoSize ELSE TailSize(SplitWhitespace(From(line, idx + Len("current"))))

\* the first line of `xrandr --current` that yields a size
RECURSIVE XrandrScan(_)
SizeOrNext(c, ls) == IF c.ok THEN c ELSE XrandrScan(Tail(ls))

XrandrScan(ls) ==
    IF Len(ls) = 0 THEN NoSize
    ELSE SizeOrNext(SizeAfter(ls[1], Find(ls[1], "current")), ls)

xrandr_size(e) ==
    IF e.DISPLAY.present /\ which(e, "xrandr") /\ e.xrandr_out.present
    THEN XrandrScan(Lines(e.xrandr_out.text))
    ELSE NoSize

PairOf(sz) == <<sz.w, sz.h>>

\* the utility asked first, the framebuffer only when it gives nothing
PrefersXrandr(fb, e) == IF xrandr_size(e).ok THEN PairOf(xrandr_size(e)) ELSE PairOf(fb)

FirstSize(fb, e) == IF fb.ok THEN PairOf(fb) ELSE PairOf(xrandr_size(e))

detect_resolution(e) ==
    FirstSize(IF e.fb0_virtual_size.present THEN FbSize(e.fb0_virtual_size.text)
              ELSE NoSize, e)

IsInstalledLine(l) == l = "Status: install ok installed"

NonBlank(l) == Trim(l) # ""

IsPackageDir(en) == en.is_dir /\ en.has_desc

\* Iterator::skip(1)
Skip1(ls) == SubSeq(ls, 2, Len(ls))

\* the per-manager counts, in the order the managers are probed
manager_counts(e) ==
    <<[name |-> "dpkg",
       count |-> IF e.dpkg_status.present
                 THEN Len(SelectSeq(Lines(e.dpkg_status.text), IsInstalledLine)) ELSE 0],
      [name |-> "pacman",
       count |-> IF e.pacman_local.present
                 THEN Len(SelectSeq(e.pacman_local.entries, IsPackageDir)) ELSE 0],
      [name |-> "rpm",
       count |-> IF which(e, "rpm") /\ e.rpm_out.present
                 THEN Len(SelectSeq(Lines(e.rpm_out.text), NonBlank)) ELSE 0],
      [name |-> "flatpak",
       count |-> IF which(e, "flatpak") /\ e.flatpak_out.present
                 THEN Len(SelectSeq(Lines(e.flatpak_out.text), NonBlank)) ELSE 0],
      [name |-> "snap",
       count |-> IF which(e, "snap") /\ e.snap_out.present
                 THEN Len(SelectSeq(Skip1(Lines(e.snap_out.text)), NonBlank)) ELSE 0]>>

RECURSIVE SumCounts(_)
SumCounts(ms) == IF Len(ms) = 0 THEN 0 ELSE ms[1].count + SumCounts(Tail(ms))

RECURSIVE Labels(_)
Labels(ms) ==
    IF Len(ms) = 0 THEN <<>>
    ELSE IF ms[1].count > 0
    THEN <<ToString(ms[1].count) \o " (" \o ms[1].name \o ")">> \o Labels(Tail(ms))
    ELSE Labels(Tail(ms))

\* a label made of the first fragment alone
FirstFragmentOnly(e) ==
    IF Labels(manager_counts(e)) = <<>> THEN <<0, "">>
    ELSE <<SumCounts(manager_counts(e)), Labels(manager_counts(e))[1]>>

detect_packages_fast(e) ==
    IF SumCounts(manager_counts(e)) = 0 THEN <<0, "">>
    ELSE <<SumCounts(manager_counts(e)), JoinStr(Labels(manager_counts(e)), ", ")>>

-----------------------------------------------------------------------------
(* The substitution pass, src/uwufy.rs *)

\* the pairs k.. of a table applied one after the other
RECURSIVE ReplaceFrom(_, _, _)
ReplaceFrom(s, table, k) ==
    IF k > Len(table) THEN s
    ELSE CHOOSE out \in {ReplaceFrom(r, table, k + 1) :
                            r \in {Replace(s, table[k][1], table[k][2])}} : TRUE

\* uwu_name: the exact-match table
NameTable ==
    <<<<"alpine", "Nyalpine">>, <<"amogos", "AmogOwOS">>,
      <<"android", "Nyandroid">>, <<"arch", "Nyarch Linuwu">>,
      <<"arcolinux", "ArcOwO Linuwu">>, <<"artix", "Nyartix Linuwu">>,
      <<"debian", "Debinyan">>, <<"devuan", "Devunyan">>,
      <<"deepin", "Dewepyn">>, <<"endeavouros", "endeavOwO">>,
      <<"EndeavourOS", "endeavOwO">>, <<"fedora", "Fedowa">>,
      <<"femboyos", "FemboyOWOS">>, <<"gentoo", "GentOwO">>,
      <<"gnu", "gnUwU">>, <<"guix", "gnUwU gUwUix">>,
      <<"linuxmint", "LinUWU Miwint">>, <<"manjaro", "Myanjawo">>,
      <<"manjaro-arm", "Myanjawo AWM">>, <<"neon", "KDE NeOwOn">>,
      <<"nixos", "nixOwOs">>, <<"opensuse-leap", "OwOpenSUSE Leap">>,
      <<"opensuse-tumbleweed", "OwOpenSUSE Tumbleweed">>,
      <<"pop", "PopOwOS">>, <<"raspbian", "RaspNyan">>,
      <<"rocky", "Wocky Linuwu">>, <<"slackware", "Swackwawe">>,
      <<"solus", "sOwOlus">>, <<"ubuntu", "Uwuntu">>, <<"void", "OwOid">>,
      <<"xerolinux", "xuwulinux">>, <<"freebsd", "FweeBSD">>,
      <<"openbsd", "OwOpenBSD">>, <<"macos", "macOwOS">>, <<"ios", "iOwOS">>,
      <<"windows", "WinyandOwOws">>>>

\* uwu_kernel: the replacement pairs, in order
KernelTable ==
    <<<<"Linux", "Linuwu">>, <<"linux", "linuwu">>, <<"alpine", "Nyalpine">>,
      <<"amogos", "AmogOwOS">>, <<"android", "Nyandroid">>,
      <<"arch", "Nyarch Linuwu">>, <<"artix", "Nyartix Linuwu">>,
      <<"debian", "Debinyan">>, <<"deepin", "Dewepyn">>,
      <<"endeavouros", "endeavOwO">>, <<"EndeavourOS", "endeavOwO">>,
      <<"fedora", "Fedowa">>, <<"femboyos", "FemboyOWOS">>,
      <<"gentoo", "GentOwO">>, <<"gnu", "gnUwU">>,
      <<"guix", "gnUwU gUwUix">>, <<"linuxmint", "LinUWU Miwint">>,
      <<"manjaro", "Myanjawo">>, <<"manjaro-arm", "Myanjawo AWM">>,
      <<"neon", "KDE NeOwOn">>, <<"nixos", "nixOwOs">>,
      <<"opensuse-leap", "OwOpenSUSE Leap">>,
      <<"opensuse-tumbleweed", "OwOpenSUSE Tumbleweed">>,
      <<"pop", "PopOwOS">>, <<"raspbian", "RaspNyan">>,
      <<"rocky", "Wocky Linuwu">>, <<"slackware", "Swackwawe">>,
      <<"solus", "sOwOlus">>, <<"ubuntu", "Uwuntu">>, <<"void", "OwOid">>,
      <<"xerolinux", "xuwulinux">>, <<"freebsd", "FweeBSD">>,
      <<"openbsd", "OwOpenBSD">>, <<"macos", "macOwOS">>, <<"ios", "iOwOS">>,
      <<"windows", "WinyandOwOws">>>>

\* uwu_hw: the replacement pairs, in order
HwTable ==
    <<<<"lenovo", "LenOwO">>, <<"Lenovo", "LenOwO">>, <<"cpu", "CPUwU">>,
      <<"CPU", "CPUwU">>, <<"core", "Cowe">>, <<"Core", "Cowe">>,
      <<"gpu", "GPUwU">>, <<"GPU", "GPUwU">>, <<"graphics", "Gwaphics">>,
      <<"Graphics", "Gwaphics">>, <<"corporation", "COwOpowation">>,
      <<"Corporation", "COwOpowation">>, <<"nvidia", "NyaVIDIA">>,
      <<"NVIDIA", "NyaVIDIA">>, <<"mobile", "Mwobile">>,
      <<"Mobile", "Mwobile">>, <<"intel", "Inteww">>, <<"Intel", "Inteww">>,
      <<"celeron", "Celewon">>, <<"Celeron", "Celewon">>,
      <<"radeon", "Radenyan">>, <<"Radeon", "Radenyan">>,
      <<"geforce", "GeFOwOce">>, <<"GeForce", "GeFOwOce">>,
      <<"raspberry", "Nyasberry">>, <<"Raspberry", "Nyasberry">>,
      <<"broadcom", "Bwoadcom">>, <<"Broadcom", "Bwoadcom">>,
      <<"motorola", "MotOwOwa">>, <<"Motorola", "MotOwOwa">>,
      <<"proliant", "ProLinyant">>, <<"ProLiant", "ProLinyant">>,
      <<"poweredge", "POwOwEdge">>, <<"PowerEdge", "POwOwEdge">>,
      <<"apple", "Nyapple">>, <<"Apple", "Nyapple">>,
      <<"electronic", "ElectrOwOnic">>, <<"Electronic", "ElectrOwOnic">>,
      <<"processor", "Pwocessow">>, <<"Processor", "Pwocessow">>,
      <<"microsoft", "MicOwOsoft">>, <<"Microsoft", "MicOwOsoft">>,
      <<"ryzen", "Wyzen">>, <<"Ryzen", "Wyzen">>, <<"advanced", "Adwanced">>,
      <<"Advanced", "Adwanced">>, <<"micro", "Micwo">>, <<"Micro", "Micwo">>,
      <<"devices", "Dewices">>, <<"Devices", "Dewices">>,
      <<"inc.", "Nyanc.">>, <<"Inc.", "Nyanc.">>,
      <<"lucienne", "Lucienyan">>, <<"Lucienne", "Lucienyan">>,
      <<"tuxedo", "TUWUXEDO">>, <<"TUXEDO", "TUWUXEDO">>,
      <<"aura", "Uwura">>, <<"Aura", "Uwura">>>>

\* uwu_pkgman: the replacement pairs, in order
PkgmanTable ==
    <<<<"brew-cask", "bwew-cawsk">>, <<"brew-cellar", "bwew-cewwaw">>,
      <<"emerge", "emewge">>, <<"flatpak", "fwatpakkies">>,
      <<"pacman", "pacnyan">>, <<"port", "powt">>, <<"snap", "snyap">>>>

\* the name of the matching row, "unknown" when no row matches
NameAt(k) == IF k = 0 THEN "unknown" ELSE NameTable[k][2]

uwu_name(os_name) ==
    NameAt(First({k \in 1..Len(NameTable) : NameTable[k][1] = os_name}))

uwu_kernel(kernel) == ReplaceFrom(kernel, KernelTable, 1)

uwu_hw(hw) == ReplaceFrom(hw, HwTable, 1)

uwu_pkgman(pkgman) == ReplaceFrom(pkgman, PkgmanTable, 1)

uwufy_all(i) ==
    [i EXCEPT !.kernel = uwu_kernel(@),
              !.cpu_model = uwu_hw(@),
              !.model = uwu_hw(@),
              !.gpu_models = [k \in 1..Len(@) |-> uwu_hw(@[k])],
              !.pkgman_name = uwu_pkgman(@)]

-----------------------------------------------------------------------------
(* Configuration, src/config.rs *)

\* Configuration::default()
DefaultConfig ==
    [show_user |-> TRUE, show_os |-> TRUE, show_host |-> TRUE, show_kernel |-> TRUE,
     show_cpu |-> TRUE, show_gpu |-> TRUE, show_ram |-> TRUE, show_resolution |-> TRUE,
     show_shell |-> TRUE, show_pkgs |-> TRUE, show_uptime |-> TRUE, show_colors |-> TRUE,
     show_image |-> FALSE, gpu_indexes |-> <<>>]

\* str::replacen('~', home, 1) on a path that starts with '~'
ExpandHome(path, e) ==
    IF StartsWith(path, "~") /\ e.HOME.present
    THEN e.HOME.text \o From(path, 2) ELSE path

\* the match on the key: the configuration after one key = value line
ConfigKey(c, key, value) ==
    CASE key = "image"      -> [c EXCEPT !.show_image = TRUE]
      [] key = "user"       -> [c EXCEPT !.show_user = (value = "true")]
      [] key = "os"         -> [c EXCEPT !.show_os = (value # "false")]
      [] key = "host"       -> [c EXCEPT !.show_host = (value # "false")]
      [] key = "kernel"     -> [c EXCEPT !.show_kernel = (value # "false")]
      [] key = "cpu"        -> [c EXCEPT !.show_cpu = (value # "false")]
      [] key = "gpu"        ->
           IF ParseUnsigned(value, U32Max).ok
           THEN [c EXCEPT !.gpu_indexes = Append(@, ParseUnsigned(value, U32Max).val)]
           ELSE c
      [] key = "gpus"       -> [c EXCEPT !.show_gpu = (value # "false")]
      [] key = "ram"        -> [c EXCEPT !.show_ram = (value # "false")]
      [] key = "resolution" -> [c EXCEPT !.show_resolution = (value # "false")]
      [] key = "shell"      -> [c EXCEPT !.show_shell = (value # "false")]
      [] key = "pkgs"       -> [c EXCEPT !.show_pkgs = (value # "false")]
      [] key = "uptime"     -> [c EXCEPT !.show_uptime = (value # "false")]
      [] key = "colors"     -> [c EXCEPT !.show_colors = (value # "false")]
      [] OTHER -> c

\* the state of the parse after one key = value line
ConfigKeyValue(st, key, value, e) ==
    [config |-> ConfigKey(st.config, key, value),
     distro |-> IF key = "distro" THEN Some(value) ELSE st.distro,
     image  |-> IF key = "image" THEN Some(ExpandHome(value, e)) ELSE st.image]

\* split_once('='), the key trimmed, the value trimmed and unquoted
ConfigSplit(st, line, eq, e) ==
    IF eq = 0 THEN st
    ELSE ConfigKeyValue(st, Trim(Before(line, eq)),
                        TrimMatches(Trim(After(line, eq)), "\""), e)

\* one trimmed line of the configuration file applied to the state of the parse
ConfigTrimmed(st, line, e) ==
    IF line = "" \/ StartsWith(line, "#") THEN st
    ELSE ConfigSplit(st, line, Find(line, "="), e)

RECURSIVE ConfigScan(_, _, _)
ConfigScan(st, ls, e) ==
    IF Len(ls) = 0 THEN st
    ELSE ConfigScan(ConfigTrimmed(st, Trim(ls[1]), e), Tail(ls), e)

ParseStart == [config |-> DefaultConfig, distro |-> None, image |-> None]

\* Configuration::parse_config as main uses it: the configuration together
\* with the distro and image overrides of the file
parse_config(e) ==
    IF e.config_file.present THEN ConfigScan(ParseStart, Lines(e.config_file.text), e)
    ELSE ParseStart

-----------------------------------------------------------------------------
(* The cache codec, src/cache.rs *)

RECURSIVE GpuLines(_)
GpuLines(gpus) ==
    IF Len(gpus) = 0 THEN ""
    ELSE "gpu=" \o gpus[1] \o "\n" \o GpuLines(Tail(gpus))

\* the text write_cache puts in the file
CacheText(i) ==
    "user=" \o i.user \o "\n" \o
    "host=" \o i.host \o "\n" \o
    "version_name=" \o i.os_name \o "\n" \o
    "host_model=" \o i.model \o "\n" \o
    "kernel=" \o i.kernel \o "\n" \o
    "cpu=" \o i.cpu_model \o "\n" \o
    "screen_width=" \o ToString(i.screen_width) \o "\n" \o
    "screen_height=" \o ToString(i.screen_height) \o "\n" \o
    "shell=" \o i.shell \o "\n" \o
    "pkgs=" \o ToString(i.pkgs) \o "\n" \o
    "pkgman_name=" \o i.pkgman_name \o "\n" \o
    GpuLines(i.gpu_models)

\* a write_cache that stores the registry as the substitution pass leaves it
WritesSubstituted(i, e) ==
    IF e.HOME.present /\ e.cache_creatable
    THEN [e EXCEPT !.cache_file = Text(CacheText(uwufy_all(i)))]
    ELSE e

\* write_cache: the host after the call
write_cache(i, e) ==
    IF e.HOME.present /\ e.cache_creatable
    THEN [e EXCEPT !.cache_file = Text(CacheText(i))]
    ELSE e

\* the match on the key of one cache line
CacheKey(i, key, value) ==
    CASE key = "user"          -> [i EXCEPT !.user = value]
      [] key = "host"          -> [i EXCEPT !.host = value]
      [] key = "version_name"  -> [i EXCEPT !.os_name = value]
      [] key = "host_model"    -> [i EXCEPT !.model = value]
      [] key = "kernel"        -> [i EXCEPT !.kernel = value]
      [] key = "cpu"           -> [i EXCEPT !.cpu_model = value]
      [] key = "gpu"           -> [i EXCEPT !.gpu_models = Append(@, value)]
      [] key = "screen_width"  ->
           [i EXCEPT !.screen_width = UnwrapOr0(ParseUnsigned(value, U32Max))]
      [] key = "screen_height" ->
           [i EXCEPT !.screen_height = UnwrapOr0(ParseUnsigned(value, U32Max))]
      [] key = "shell"         -> [i EXCEPT !.shell = value]
      [] key = "pkgs"          -> [i EXCEPT !.pkgs = UnwrapOr0(ParseUnsigned(value, U32Max))]
      [] key = "pkgman_name"   -> [i EXCEPT !.pkgman_name = value]
      [] OTHER -> i

\* one line of the cache file applied to the registry being read
CacheSplit(i, line, eq) ==
    IF eq = 0 THEN i ELSE CacheKey(i, Before(line, eq), After(line, eq))

RECURSIVE CacheScan(_, _)
CacheScan(i, ls) ==
    IF Len(ls) = 0 THEN i
    ELSE CacheScan(CacheSplit(i, ls[1], Find(ls[1], "=")), Tail(ls))

\* cache.rs get_mem: one snapshot of the memory source as (total, used)
get_mem(e, checks) ==
    [panicked |-> get_memory(DefaultInfo, e, checks).panicked,
     total |-> get_memory(DefaultInfo, e, checks).info.ram_total,
     used |-> get_memory(DefaultInfo, e, checks).info.ram_used]

\* cache.rs get_uptime
cache_get_uptime(e) == get_uptime(DefaultInfo, e).uptime

\* the registry of the file as it is, without the live probes
FileOnly(i, m, up) == [some |-> TRUE, panicked |-> FALSE, info |-> i]

\* the registry of the file with memory and uptime probed live
WithLive(i, m, up) ==
    [some |-> TRUE, panicked |-> m.panicked,
     info |-> [i EXCEPT !.ram_total = m.total, !.ram_used = m.used, !.uptime = up]]

NoCache == [some |-> FALSE, panicked |-> FALSE, info |-> DefaultInfo]

\* read_cache: None without HOME or without the cache file
read_cache(e, checks) ==
    IF e.HOME.present /\ e.cache_file.present
    THEN WithLive(CacheScan(DefaultInfo, Lines(e.cache_file.text)),
                  get_mem(e, checks), cache_get_uptime(e))
    ELSE NoCache

-----------------------------------------------------------------------------
(* populate: the order of its steps, the three threads, the joins *)

Tasks == {"gpu", "res", "pkgs"}

\* populate with the first thread spawned ahead of the uptime probe
EagerOrder ==
    <<"user_host", "os", "kernel", "resolution", "model", "cpu", "memory",
      "shell", "spawn_gpu", "uptime", "spawn_res", "spawn_pkgs",
      "join_gpu", "join_res", "join_pkgs", "returned">>

\* populate with each thread joined right after it is spawned
JoinAfterEachSpawn ==
    <<"user_host", "os", "kernel", "resolution", "model", "cpu", "memory",
      "shell", "uptime", "spawn_gpu", "join_gpu", "spawn_res", "join_res",
      "spawn_pkgs", "join_pkgs", "returned">>

\* the statements of populate in program order, then the return
PopulateOrder ==
    <<"user_host", "os", "kernel", "resolution", "model", "cpu", "memory",
      "shell", "uptime", "spawn_gpu", "spawn_res", "spawn_pkgs",
      "join_gpu", "join_res", "join_pkgs", "returned">>

\* the place of statement p in the program order
Position(p) == First({j \in 1..Len(PopulateOrder) : PopulateOrder[j] = p})

\* populate that returns after the spawns and leaves the handles unjoined
SkipJoins(p) ==
    IF p = "spawn_pkgs" THEN "returned" ELSE PopulateOrder[Position(p) + 1]

\* the statement that follows statement p
NextPc(p) == PopulateOrder[Position(p) + 1]

\* a spawn that ignores the display options
AlwaysSpawn(t, c) == TRUE

\* the display option that guards the spawn of a task
ShouldSpawn(t, c) ==
    CASE t = "gpu"  -> c.show_gpu
      [] t = "res"  -> c.show_resolution
      [] t = "pkgs" -> c.show_pkgs

\* the function a thread runs: its return value on host e
ThreadBody(t, e) ==
    CASE t = "gpu"  -> detect_gpus(e)
      [] t = "res"  -> detect_resolution(e)
      [] t = "pkgs" -> detect_packages_fast(e)

\* a thread that stores its value in the registry itself
ThreadStores(t, i, r) ==
    CASE t = "gpu"  -> [i EXCEPT !.gpu_models = r]
      [] t = "res"  -> [i EXCEPT !.screen_width = r[1], !.screen_height = r[2]]
      [] t = "pkgs" -> [i EXCEPT !.pkgs = r[1], !.pkgman_name = r[2]]

\* what a thread that returns r does to the registry itself: the spawned
\* functions take no argument and capture nothing
ThreadWrites(t, i, r) == i

\* a join that waits for a value and so never returns for a panicked thread
WaitsForValue(st) == st = "finished"

\* a join that returns at once, whatever the thread is doing
NeverBlocks(st) == TRUE

\* JoinHandle::join returns only once the thread has terminated
Joinable(st) == st \in {"finished", "panicked"}

\* the state of a thread after the join on it has returned
Joined(st) ==
    CASE st = "finished" -> "joined_ok"
      [] st = "panicked" -> "joined_err"
      [] OTHER -> st

\* the Ok arm of a join that gives up once an earlier join has failed
StoreUnlessFailed(t, i, r) ==
    IF \E u \in Tasks : task[u] = "joined_err" THEN i
    ELSE CASE t = "gpu"  -> [i EXCEPT !.gpu_models = r]
           [] t = "res"  -> [i EXCEPT !.screen_width = r[1], !.screen_height = r[2]]
           [] t = "pkgs" -> [i EXCEPT !.pkgs = r[1], !.pkgman_name = r[2]]

\* an Ok arm that adds the GPU list to the one already in the registry
AppendsGpus(t, i, r) ==
    CASE t = "gpu"  -> [i EXCEPT !.gpu_models = @ \o r]
      [] t = "res"  -> [i EXCEPT !.screen_width = r[1], !.screen_height = r[2]]
      [] t = "pkgs" -> [i EXCEPT !.pkgs = r[1], !.pkgman_name = r[2]]

\* the Ok arm of a join: the result stored in the registry
ApplyOk(t, i, r) ==
    CASE t = "gpu"  -> [i EXCEPT !.gpu_models = r]
      [] t = "res"  -> [i EXCEPT !.screen_width = r[1], !.screen_height = r[2]]
      [] t = "pkgs" -> [i EXCEPT !.pkgs = r[1], !.pkgman_name = r[2]]

\* a join that reports failure and clears the fields of its task
ResetFields(t, i) ==
    CASE t = "gpu"  -> [i EXCEPT !.gpu_models = <<>>]
      [] t = "res"  -> [i EXCEPT !.screen_width = 0, !.screen_height = 0]
      [] t = "pkgs" -> [i EXCEPT !.pkgs = 0, !.pkgman_name = ""]

\* a join that reports failure: there is no Err arm
ApplyErr(t, i) == i

\* get_resolution: each field from its own call of detect_resolution
get_resolution(i, e) ==
    [i EXCEPT !.screen_width = detect_resolution(e)[1],
              !.screen_height = detect_resolution(e)[2]]

\* the registry fields a task owns
TaskFields(t, i) ==
    CASE t = "gpu"  -> <<i.gpu_models>>
      [] t = "res"  -> <<i.screen_width, i.screen_height>>
      [] t = "pkgs" -> <<i.pkgs, i.pkgman_name>>

NoResult == <<>>

-----------------------------------------------------------------------------
(* Hosts and command lines the run is checked on *)

DesktopHost ==
    [BareHost EXCEPT
        !.USER = Text("bear"), !.SHELL = Text("/usr/bin/zsh"), !.DISPLAY = Text(":0"),
        !.PATH = {"lspci", "xrandr", "flatpak"},
        !.proc_hostname = Text("den\n"), !.etc_hostname = Text("den-etc\n"),
        !.os_release = Text("NAME=\"Arch Linux\"\nID=arch\n"),
        !.arch_release = TRUE,
        !.proc_osrelease = Text("6.1.0-arch1\n"),
        !.product_version = Text("To Be Filled By O.E.M.\n"),
        !.product_name = Text("ThinkPad T480\n"),
        !.cpuinfo = Text("processor\t: 0\nmodel name\t: Intel Core i5\nprocessor\t: 1\nmodel name\t: Intel Core i5\n"),
        !.meminfo = Text("MemTotal:       8192 kB\nMemFree:        1024 kB\nMemAvailable:   3072 kB\n"),
        !.proc_uptime = Text("3725.55 7000.10\n"),
        !.xrandr_out = Text("Screen 0: minimum 8 x 8, current 1920 x 1080, maximum 9000 x 9000\n"),
        !.lspci_out = Text("00:02.0 \"VGA compatible controller [0300]\" \"Intel Corporation [8086]\" \"UHD Graphics 620 [5917]\" -r07 \"Lenovo [17aa]\" \"ThinkPad T480 [225d]\"\n"),
        !.dpkg_status = Text("Package: a\nStatus: install ok installed\n\nPackage: b\nStatus: install ok installed\n"),
        !.flatpak_out = Text("org.app.One\n"),
        !.HOME = Text("/home/bear"), !.cache_creatable = TRUE]

\* a headless board: framebuffer only, drm drivers only, a cache from an
\* earlier run, and a meminfo whose MemAvailable exceeds MemTotal
BoardHost ==
    [BareHost EXCEPT
        !.USER = Text("pi"), !.SHELL = Text("sh"),
        !.etc_hostname = Text("board\n"),
        !.debian_version = TRUE,
        !.uname_out = Text("5.10.0\n"),
        !.board_name = Text("Raspberry Pi\n"),
        !.cpuinfo = Text("processor\t: 0\nprocessor\t: 1\nprocessor\t: 2\n"),
        !.meminfo = Text("MemTotal:       1024 kB\nMemAvailable:   2048 kB\n"),
        !.proc_uptime = Text("59\n"),
        !.fb0_virtual_size = Text("800,480\n"),
        !.drm = [present |-> TRUE,
                 cards |-> <<[name |-> "card0", uevent |-> Text("DRIVER=vc4\n")],
                             [name |-> "card0-HDMI-A-1", uevent |-> Absent],
                             [name |-> "renderD128", uevent |-> Text("DRIVER=v3d\n")]>>],
        !.pacman_local = [present |-> TRUE,
                          entries |-> <<[is_dir |-> TRUE, has_desc |-> TRUE],
                                        [is_dir |-> FALSE, has_desc |-> FALSE]>>],
        !.HOME = Text("/home/pi"), !.cache_creatable = TRUE,
        !.cache_file = Text("user=pi\nhost=board\nversion_name=debian\nscreen_width=800\nscreen_height=480\npkgs=1\npkgman_name=1 (pacman)\ngpu=vc4\n")]

\* a host whose first source of each multi-source fact is there but yields
\* nothing usable, while the next source is good
SpareHost ==
    [BareHost EXCEPT
        !.USER = Text("ops"), !.SHELL = Text("/bin/bash"), !.DISPLAY = Text(":1"),
        !.PATH = {"lspci", "xrandr"},
        !.proc_hostname = Text("\n"), !.etc_hostname = Text("spare\n"),
        !.os_release = Text("NAME=\"Custom\"\nID=\"\"\n"),
        !.fedora_release = TRUE,
        !.proc_osrelease = Text("6.6.1\n"),
        !.product_version = Text("\n"), !.product_name = Text("Box\n"),
        !.cpuinfo = Text("model name\t: Ryzen 5\n"),
        !.meminfo = Text("MemTotal:       4096 kB\nMemAvailable:   1024 kB\n"),
        !.proc_uptime = Text("600.00 10.00\n"),
        !.fb0_virtual_size = Text("garbage\n"),
        !.xrandr_out = Text("Screen 0: minimum 8 x 8, current 1280 x 720, maximum 9000 x 9000\n"),
        !.lspci_out = Text("00:1f.3 \"Audio device [0403]\" \"Intel Corporation [8086]\" \"HD Audio [a348]\" -r10 \"Dell [1028]\" \"Device [0818]\"\n"),
        !.drm = [present |-> TRUE,
                 cards |-> <<[name |-> "card1", uevent |-> Text("DRIVER=amdgpu\n")]>>],
        !.HOME = Text("/home/ops")]

ConfigFiles ==
    {Absent,
     Text("# no gpus\ngpus=false\n"),
     Text("resolution=false\npkgs = false\n"),
     Text("gpus=false\nresolution=false\npkgs=false\n"),
     Text("distro=\"fedora\"\nimage=~/logo\nuser=yes\n")}

RunHosts ==
    {[h EXCEPT !.config_file = cf] : h \in {BareHost, DesktopHost, BoardHost, SpareHost},
                                     cf \in ConfigFiles}

NoArgs ==
    [list |-> FALSE, version |-> FALSE, read_cache |-> FALSE, write_cache |-> FALSE,
     distro |-> None, image |-> None]

ArgSets ==
    {NoArgs,
     [NoArgs EXCEPT !.list = TRUE],
     [NoArgs EXCEPT !.version = TRUE],
     [NoArgs EXCEPT !.read_cache = TRUE],
     [NoArgs EXCEPT !.write_cache = TRUE],
     [NoArgs EXCEPT !.distro = Some("debian")],
     [NoArgs EXCEPT !.read_cache = TRUE, !.write_cache = TRUE, !.image = Some("logo")]}

\* nothing has happened before: no populate call has returned in this run,
\* no run has ended, write_cache has not been called, uwufy_all has not run,
\* the host has not changed under a probe
NoPrior ==
    [calls |-> 0, runs |-> 0, returned |-> DefaultInfo,
     outcome |-> [t \in Tasks |-> "unspawned"],
     written |-> [some |-> FALSE, val |-> DefaultInfo],
     finished |-> DefaultInfo,
     earlier |-> [some |-> FALSE, val |-> BareHost]]

\* hosts that differ from DesktopHost in the sources of one probe
SessionHosts ==
    {BareHost, DesktopHost, BoardHost, SpareHost}
    \cup {[DesktopHost EXCEPT !.product_version = pv, !.product_name = pn,
                              !.board_name = bn] :
             pv \in {Absent, Text("\n"), Text("To Be Filled By O.E.M.\n"), Text("20L5\n")},
             pn \in {Absent, Text(" To Be Filled By O.E.M. \n"), Text("ThinkPad T480\n")},
             bn \in {Absent, Text("B450\n")}}
    \cup {[DesktopHost EXCEPT !.cpuinfo = c] :
             c \in {Absent, Text(""),
                    Text("processor\t: 0\nprocessor\t: 1\nprocessor\t: 2\n"),
                    Text("model name\nmodel name\nmodel name\n"),
                    Text("processor\t: 0\nmodel name\t:\nprocessor\t: 1\nmodel name\t: \n"),
                    Text("model name\t: Cortex-A72\nmodel name\t: Cortex-A53\n")}}
    \cup {[DesktopHost EXCEPT !.meminfo = m] :
             m \in {Absent, Text(""),
                    Text("MemFree:        512 kB\nMemAvailable:   2048 kB\n"),
                    Text("MemTotal:       2048 kB\nMemAvailable:   2048 kB\n"),
                    Text("MemTotal:       lots kB\nMemAvailable:   100 kB\n"),
                    Text("MemTotal:\nMemAvailable:\n"),
                    Text("MemTotal:       4100 kB\nMemAvailable:   4000 kB\n")}}
    \cup {[h EXCEPT !.os_release = r] :
             h \in {DesktopHost, [DesktopHost EXCEPT !.arch_release = FALSE]},
             r \in {Absent, Text("ID=\n"), Text("ID=\"\"\n"), Text("NAME=\"Arch\"\n"),
                    Text("ID_LIKE=arch\nID=\"manjaro\"\nID=other\n")}}
    \cup {[DesktopHost EXCEPT !.os_release = r, !.debian_version = d, !.arch_release = a,
                              !.fedora_release = f] :
             r \in {Absent, Text("NAME=\"Mint\"\nVERSION_ID=21\n")},
             d \in BOOLEAN, a \in BOOLEAN, f \in BOOLEAN}
    \cup {[DesktopHost EXCEPT !.fb0_virtual_size = fb, !.DISPLAY = d, !.PATH = p] :
             fb \in {Absent, Text("800,480\n"), Text("garbage\n")},
             d \in {Absent, Text(":0")},
             p \in {{"lspci", "xrandr", "flatpak"}, {"lspci", "flatpak"}}}
    \cup {[DesktopHost EXCEPT !.fb0_virtual_size = Text("1024\n"),
                              !.xrandr_out = Text("Can't open display\n")]}
    \cup {[DesktopHost EXCEPT !.PATH = {"rpm", "flatpak", "snap"}, !.dpkg_status = d,
                              !.rpm_out = r, !.snap_out = s] :
             d \in {Absent, Text("Package: a\nStatus: deinstall ok config-files\n")},
             r \in {Text(""), Text("bash\n\nglibc\n")},
             s \in {Absent, Text("Name  Version\ncore  16\n")}}
    \cup {[DesktopHost EXCEPT !.proc_hostname = Absent,
                              !.etc_hostname = Text("# lab machine\nnode7\n")],
          [DesktopHost EXCEPT !.cache_file =
              Text("user=old\nram_total=77\nram_used=55\nuptime=11\ngpu=a=b\ngpu=\n")]}

-----------------------------------------------------------------------------
(* The run *)

Init ==
    /\ env \in RunHosts
    /\ overflow_checks \in BOOLEAN
    /\ args \in ArgSets
    /\ config = DefaultConfig
    /\ file_overrides = [distro |-> None, image |-> None]
    /\ info = DefaultInfo
    /\ pc = "start"
    /\ task = [t \in Tasks |-> "unspawned"]
    /\ result = [t \in Tasks |-> NoResult]
    /\ launch_info = DefaultInfo
    /\ trace = <<>>
    /\ prior = NoPrior

Log(op) == trace' = Append(trace, op)

\* main, up to the early returns of --list and --version
Start ==
    /\ pc = "start"
    /\ pc' = IF args.list \/ args.version THEN "exit" ELSE "parse_config"
    /\ Log(IF args.list THEN "list" ELSE IF args.version THEN "version" ELSE "args")
    /\ UNCHANGED <<prior, env, overflow_checks, args, config, file_overrides, info, task, result,
                   launch_info>>

\* main.rs 58
ParseConfig ==
    /\ pc = "parse_config"
    /\ config' = parse_config(env).config
    /\ file_overrides' = [distro |-> parse_config(env).distro,
                          image |-> parse_config(env).image]
    /\ pc' = "read_cache"
    /\ Log("parse_config")
    /\ UNCHANGED <<prior, env, overflow_checks, args, info, task, result, launch_info>>

CacheRead(c) ==
    IF c.panicked
    THEN /\ pc' = "panicked"
         /\ Log("read_cache_panic")
         /\ UNCHANGED info
    ELSE /\ pc' = "overrides"
         /\ info' = c.info
         /\ Log(IF c.some THEN "read_cache_hit" ELSE "read_cache_miss")

\* main.rs 59-63: the registry of the cache when --read-cache finds one
ReadCache ==
    /\ pc = "read_cache"
    /\ CacheRead(IF args.read_cache THEN read_cache(env, overflow_checks) ELSE NoCache)
    /\ UNCHANGED <<prior, env, overflow_checks, args, config, file_overrides, task, result,
                   launch_info>>

\* a run that never takes the registry from the cache
NeverFromCache == FALSE

FromCache == InSeq("read_cache_hit", trace)

WithDistro(i, d) == IF d.some THEN [i EXCEPT !.os_name = d.val] ELSE i

Overridden(i, img) ==
    IF img.some /\ img.val # ""
    THEN /\ info' = [i EXCEPT !.image_name = Some(img.val)]
         /\ config' = [config EXCEPT !.show_image = TRUE]
    ELSE /\ info' = i
         /\ UNCHANGED config

\* main.rs 68-89: the distro and image overrides, the command line first
Overrides ==
    /\ pc = "overrides"
    /\ Overridden(WithDistro(info, OrElse(args.distro, file_overrides.distro)),
                  OrElse(args.image, file_overrides.image))
    /\ pc' = IF FromCache THEN "returned" ELSE PopulateOrder[1]
    /\ Log("overrides")
    /\ UNCHANGED <<prior, env, overflow_checks, args, file_overrides, task, result, launch_info>>

\* a cheap probe that cannot fail: registry updated, next statement
Cheap(p, after) ==
    /\ pc = p
    /\ info' = after
    /\ pc' = NextPc(p)
    /\ Log(p)
    /\ launch_info' = IF NextPc(p) = "spawn_gpu" THEN after ELSE launch_info
    /\ UNCHANGED <<prior, env, overflow_checks, args, config, file_overrides, task, result>>

UserHost == Cheap("user_host", get_user_host_fast(info, env))

\* info.rs 33-35: the OS-identity probe runs only while os_name is empty
OsInfo ==
    /\ pc = "os"
    /\ info' = IF info.os_name = "" THEN get_os_info(info, env) ELSE info
    /\ pc' = NextPc("os")
    /\ Log(IF info.os_name = "" THEN "os" ELSE "os_skipped")
    /\ UNCHANGED <<prior, env, overflow_checks, args, config, file_overrides, task, result,
                   launch_info>>

Kernel == Cheap("kernel", get_kernel_fast(info, env))

Resolution == Cheap("resolution", get_resolution(info, env))

Model == Cheap("model", get_model(info, env))

Cpu == Cheap("cpu", get_cpu(info, env))

MemoryDone(r) ==
    /\ info' = r.info
    /\ pc' = IF r.panicked THEN "panicked" ELSE NextPc("memory")
    /\ Log(IF r.panicked THEN "memory_panic" ELSE "memory")

Memory ==
    /\ pc = "memory"
    /\ MemoryDone(get_memory(info, env, overflow_checks))
    /\ UNCHANGED <<prior, env, overflow_checks, args, config, file_overrides, task, result,
                   launch_info>>

Shell == Cheap("shell", get_shell(info, env))

Uptime == Cheap("uptime", get_uptime(info, env))

\* info.rs 44-58: thread::spawn when the display option is on, None otherwise
Spawn(t) ==
    /\ pc = "spawn_" \o t
    /\ IF ShouldSpawn(t, config)
       THEN /\ task' = [task EXCEPT ![t] = "running"]
            /\ Log("spawn_" \o t)
       ELSE /\ UNCHANGED task
            /\ Log("no_" \o t)
    /\ pc' = NextPc(pc)
    /\ UNCHANGED <<prior, env, overflow_checks, args, config, file_overrides, info, result,
                   launch_info>>

\* a running thread returns the value of its function
TaskFinish(t) ==
    /\ task[t] = "running"
    /\ task' = [task EXCEPT ![t] = "finished"]
    /\ result' = [result EXCEPT ![t] = ThreadBody(t, env)]
    /\ info' = ThreadWrites(t, info, ThreadBody(t, env))
    /\ UNCHANGED <<prior, env, overflow_checks, args, config, file_overrides, pc, launch_info,
                   trace>>

\* a running thread terminates abnormally
TaskPanic(t) ==
    /\ task[t] = "running"
    /\ task' = [task EXCEPT ![t] = "panicked"]
    /\ UNCHANGED <<prior, env, overflow_checks, args, config, file_overrides, info, pc, result,
                   launch_info, trace>>

\* info.rs 60-76: for a handle that exists, join and store an Ok result
Join(t) ==
    /\ pc = "join_" \o t
    /\ IF task[t] = "unspawned"
       THEN /\ UNCHANGED <<task, info>>
            /\ Log("none_" \o t)
       ELSE /\ Joinable(task[t])
            /\ task' = [task EXCEPT ![t] = Joined(task[t])]
            /\ info' = IF task[t] = "finished" THEN ApplyOk(t, info, result[t])
                       ELSE ApplyErr(t, info)
            /\ Log("join_" \o t)
    /\ pc' = NextPc(pc)
    /\ UNCHANGED <<prior, env, overflow_checks, args, config, file_overrides, result, launch_info>>

\* main.rs 94-97
CliImage ==
    /\ pc = "returned"
    /\ config' = IF args.image.some THEN [config EXCEPT !.show_image = TRUE] ELSE config
    /\ pc' = "write_cache"
    /\ Log("cli_image")
    /\ UNCHANGED <<prior, env, overflow_checks, args, file_overrides, info, task, result,
                   launch_info>>

\* main.rs 99-101
WriteCache ==
    /\ pc = "write_cache"
    /\ env' = IF args.write_cache THEN write_cache(info, env) ELSE env
    /\ pc' = "uwufy"
    /\ Log(IF args.write_cache THEN "write_cache" ELSE "no_write_cache")
    /\ prior' = IF args.write_cache THEN [prior EXCEPT !.written = Some(info)] ELSE prior
    /\ UNCHANGED <<overflow_checks, args, config, file_overrides, info, task, result,
                   launch_info>>

\* main.rs 103
Uwufy ==
    /\ pc = "uwufy"
    /\ info' = uwufy_all(info)
    /\ pc' = "print_art"
    /\ Log("uwufy_all")
    /\ prior' = [prior EXCEPT !.finished = uwufy_all(info)]
    /\ UNCHANGED <<env, overflow_checks, args, config, file_overrides, task, result,
                   launch_info>>

\* main.rs 105-109: the art is chosen from the registry, nothing is stored
PrintArt ==
    /\ pc = "print_art"
    /\ pc' = "print_info"
    /\ Log(IF config.show_image THEN "print_image" ELSE "print_ascii")
    /\ UNCHANGED <<prior, env, overflow_checks, args, config, file_overrides, info, task, result,
                   launch_info>>

\* display.rs 132-262: print_info rewrites os_name with uwu_name, then prints
PrintInfo ==
    /\ pc = "print_info"
    /\ info' = [info EXCEPT !.os_name = uwu_name(@)]
    /\ pc' = "exit"
    /\ Log("print_info")
    /\ UNCHANGED <<prior, env, overflow_checks, args, config, file_overrides, task, result,
                   launch_info>>

\* the steps of the main thread
MainStep ==
    \/ Start
    \/ ParseConfig
    \/ ReadCache
    \/ Overrides
    \/ UserHost
    \/ OsInfo
    \/ Kernel
    \/ Resolution
    \/ Model
    \/ Cpu
    \/ Memory
    \/ Shell
    \/ Uptime
    \/ \E t \in Tasks : Spawn(t)
    \/ \E t \in Tasks : Join(t)
    \/ CliImage
    \/ WriteCache
    \/ Uwufy
    \/ PrintArt
    \/ PrintInfo

\* the steps of the spawned threads
TaskStep ==
    \/ \E t \in Tasks : TaskFinish(t)
    \/ \E t \in Tasks : TaskPanic(t)

Next == MainStep \/ TaskStep

Spec == Init /\ [][Next]_vars

\* a join of populate, whichever it is at
JoinStep == \E t \in Tasks : Join(t)

\* the main thread is scheduled: a join whose thread has terminated returns.
\* Nothing is assumed of the spawned threads.
FairSpec == Spec /\ WF_vars(JoinStep)

-----------------------------------------------------------------------------
(* Sessions: populate called again on the registry it filled, and the      *)
(* program run again on the host the earlier run left                      *)

\* populate is called once more on the registry it has just returned
Again ==
    /\ pc = "returned"
    /\ ~FromCache
    /\ prior.calls + 1 < MaxCalls
    /\ prior' = [prior EXCEPT !.calls = @ + 1, !.returned = info, !.outcome = task]
    /\ pc' = PopulateOrder[1]
    /\ task' = [t \in Tasks |-> "unspawned"]
    /\ result' = [t \in Tasks |-> NoResult]
    /\ Log("populate_again")
    /\ UNCHANGED <<env, overflow_checks, args, config, file_overrides, info, launch_info>>

\* the program has exited and is started again on the same host
Rerun ==
    /\ pc = "exit"
    /\ prior.runs + 1 < MaxRuns
    /\ args' = [NoArgs EXCEPT !.read_cache = TRUE]
    /\ prior' = [NoPrior EXCEPT !.runs = prior.runs + 1, !.written = prior.written]
    /\ config' = DefaultConfig
    /\ file_overrides' = [distro |-> None, image |-> None]
    /\ info' = DefaultInfo
    /\ pc' = "start"
    /\ task' = [t \in Tasks |-> "unspawned"]
    /\ result' = [t \in Tasks |-> NoResult]
    /\ launch_info' = DefaultInfo
    /\ trace' = <<>>
    /\ UNCHANGED <<env, overflow_checks>>

\* one run that may call populate twice
TwiceInit ==
    /\ env \in RunHosts
    /\ overflow_checks \in BOOLEAN
    /\ args = NoArgs
    /\ config = DefaultConfig
    /\ file_overrides = [distro |-> None, image |-> None]
    /\ info = DefaultInfo
    /\ pc = "start"
    /\ task = [t \in Tasks |-> "unspawned"]
    /\ result = [t \in Tasks |-> NoResult]
    /\ launch_info = DefaultInfo
    /\ trace = <<>>
    /\ prior = NoPrior

TwiceSpec == TwiceInit /\ [][Next \/ Again]_vars

\* runs of the program one after the other on a host
SessionInit ==
    /\ env \in SessionHosts
    /\ overflow_checks \in BOOLEAN
    /\ args \in {[NoArgs EXCEPT !.read_cache = TRUE], [NoArgs EXCEPT !.write_cache = TRUE]}
    /\ config = DefaultConfig
    /\ file_overrides = [distro |-> None, image |-> None]
    /\ info = DefaultInfo
    /\ pc = "start"
    /\ task = [t \in Tasks |-> "unspawned"]
    /\ result = [t \in Tasks |-> NoResult]
    /\ launch_info = DefaultInfo
    /\ trace = <<>>
    /\ prior = NoPrior

SessionSpec == SessionInit /\ [][Next \/ Rerun]_vars

\* info.rs 513-516 on a host whose framebuffer geometry changes between the
\* two calls of detect_resolution: the width is read before, the height after
ResolutionDrift ==
    /\ pc = "resolution"
    /\ env' = [env EXCEPT !.fb0_virtual_size = Text("640,400\n")]
    /\ info' = [info EXCEPT !.screen_width = detect_resolution(env)[1],
                            !.screen_height = detect_resolution(env')[2]]
    /\ pc' = NextPc(pc)
    /\ Log("resolution")
    /\ prior' = [prior EXCEPT !.earlier = Some(env)]
    /\ UNCHANGED <<overflow_checks, args, config, file_overrides, task, result, launch_info>>

\* cache.rs 80-82 on a host whose /proc/meminfo changes between the two calls
\* of get_mem: the total is read before, the used amount and the uptime after
ReadCacheDrift ==
    /\ pc = "read_cache"
    /\ args.read_cache
    /\ env.HOME.present
    /\ env.cache_file.present
    /\ env' = [env EXCEPT !.meminfo =
                   Text("MemTotal:       4096 kB\nMemAvailable:   1024 kB\n")]
    /\ CacheRead(WithLive(CacheScan(DefaultInfo, Lines(env.cache_file.text)),
                          [panicked |-> get_mem(env, overflow_checks).panicked
                                            \/ get_mem(env', overflow_checks).panicked,
                           total |-> get_mem(env, overflow_checks).total,
                           used |-> get_mem(env', overflow_checks).used],
                          cache_get_uptime(env')))
    /\ prior' = [prior EXCEPT !.earlier = Some(env)]
    /\ UNCHANGED <<overflow_checks, args, config, file_overrides, task, result, launch_info>>

\* a run on a host that may change while a probe is reading it
DriftSpec == Init /\ [][Next \/ ResolutionDrift \/ ReadCacheDrift]_vars

-----------------------------------------------------------------------------
(* Properties of populate and of the run *)

\* the positions of the main thread inside populate, its return included
PopulatePcs == {PopulateOrder[k] : k \in 1..Len(PopulateOrder)}

\* a thread that was spawned and whose handle has not been joined yet
Unjoined(t) == task[t] \in {"running", "finished", "panicked"}

\* the form in which the value r returned by task t sits in its fields
Stored(t, r) == IF t = "gpu" THEN <<r>> ELSE r

\* populate was called in this run and has returned
PopulateReturned == pc = "returned" /\ ~FromCache

\* C1: when the join of one task reports failure, every other launched task
\* has still terminated and been joined by the time populate returns, and
\* each of them that returned a value has that value in its registry fields.
C1_FailureIsIsolated ==
    PopulateReturned =>
        \A t \in Tasks : \A u \in Tasks \ {t} :
            (task[t] = "joined_err" /\ task[u] # "unspawned") =>
                /\ task[u] \in {"joined_ok", "joined_err"}
                /\ task[u] = "joined_ok" =>
                       TaskFields(u, info) = Stored(u, ThreadBody(u, env))

\* the GPU thread panicked, the other two results are in the registry
C1_Witness ==
    /\ pc = "returned"
    /\ task = [t \in Tasks |-> IF t = "gpu" THEN "joined_err" ELSE "joined_ok"]
    /\ info.screen_width = 1920
    /\ info.pkgs = 3
    /\ info.gpu_models = <<>>

\* C2: after a join that reported failure the fields of that task are what
\* they were when the threads were launched, and the main thread has not
\* aborted.
C2_FailedJoinKeepsFields ==
    \A t \in Tasks :
        task[t] = "joined_err" =>
            /\ pc # "panicked"
            /\ pc \in PopulatePcs => TaskFields(t, info) = TaskFields(t, launch_info)

\* the resolution thread panicked: the cheap-pass resolution is still there
C2_Witness ==
    /\ pc = "returned"
    /\ task["res"] = "joined_err"
    /\ info.screen_width = 1920
    /\ info.screen_height = 1080

CheapOrder ==
    <<"user_host", "os", "kernel", "resolution", "model", "cpu", "memory", "shell",
      "uptime">>

\* the OS-identity step is over whether the probe ran or an override made
\* populate skip it
Completed(op) == IF op = "os_skipped" THEN "os" ELSE op

IsCheap(op) == \E j \in 1..Len(CheapOrder) : CheapOrder[j] = Completed(op)

IsSpawn(op) == op \in {"spawn_gpu", "spawn_res", "spawn_pkgs"}

\* the operations logged before the first spawn (all of them when none)
BeforeFirstSpawn(tr) ==
    IF \E k \in 1..Len(tr) : IsSpawn(tr[k])
    THEN SubSeq(tr, 1, First({k \in 1..Len(tr) : IsSpawn(tr[k])}) - 1)
    ELSE tr

InCheapOrder(sq) ==
    /\ Len(sq) = Len(CheapOrder)
    /\ \A j \in 1..Len(sq) : Completed(sq[j]) = CheapOrder[j]

\* C3: once any thread has been launched, the cheap probes logged before the
\* first launch are exactly user/host, OS identity, kernel, resolution, model,
\* CPU, memory, shell, uptime, each once and in that order.
C3_CheapPassFirst ==
    (\E t \in Tasks : task[t] # "unspawned") =>
        InCheapOrder(SelectSeq(BeforeFirstSpawn(trace), IsCheap))

\* the GPU thread runs and the cheap facts are already in the registry
C3_Witness ==
    /\ pc = "spawn_res"
    /\ task["gpu"] = "running"
    /\ info.cpu_model = "Intel Core i5"
    /\ info.uptime = 3725
    /\ info.shell = "zsh"

\* C4 as stated: no task result is in the registry while another launched
\* task has not been joined.
C4_AppliedAfterAllJoined ==
    \A t \in Tasks : \A u \in Tasks :
        task[t] = "joined_ok" => ~Unjoined(u)

\* C4 amended: the fields of a task hold its result only once that task itself
\* has been joined successfully, until then they are as they were at launch,
\* and every launched task has been joined when populate returns.
C4_AppliedAtOwnJoin ==
    /\ \A t \in Tasks :
           (pc \in PopulatePcs /\ ~FromCache /\ task[t] # "unspawned") =>
               TaskFields(t, info) = IF task[t] = "joined_ok" THEN Stored(t, result[t])
                                     ELSE TaskFields(t, launch_info)
    /\ PopulateReturned => \A t \in Tasks : ~Unjoined(t)

\* the GPU result is stored while the resolution thread is still running
C4_Witness ==
    /\ pc = "join_res"
    /\ task["gpu"] = "joined_ok"
    /\ task["res"] = "running"
    /\ info.gpu_models # <<>>
    /\ info.gpu_models = result["gpu"]

\* C5: cache writing, the substitution pass and the printing run only when no
\* spawned thread is left unjoined, and, unless the registry came from the
\* cache, only after populate went through all three joins.
C5_NoPartialState ==
    pc \in {"write_cache", "uwufy", "print_art", "print_info", "exit"} =>
        /\ \A t \in Tasks : ~Unjoined(t)
        /\ (InSeq("overrides", trace) /\ ~FromCache) =>
               \A t \in Tasks : InSeq("join_" \o t, trace) \/ InSeq("none_" \o t, trace)

\* the cache is about to be written from a fully populated registry
C5_Witness ==
    /\ pc = "write_cache"
    /\ args.write_cache
    /\ task = [t \in Tasks |-> "joined_ok"]
    /\ info.pkgs = 3
    /\ info.gpu_models # <<>>

\* the display option of a task, as the Configuration holds it
Shown(t) ==
    CASE t = "gpu"  -> config.show_gpu
      [] t = "res"  -> config.show_resolution
      [] t = "pkgs" -> config.show_pkgs

\* populate has passed the spawn statement of task t
Decided(t) == InSeq("spawn_" \o t, trace) \/ InSeq("no_" \o t, trace)

\* C6: past its spawn statement a task has been launched exactly when its
\* display option is on, and while it is off the fields of the task stay as
\* they were at that point.
C6_LaunchedIffShown ==
    \A t \in Tasks :
        Decided(t) =>
            /\ (task[t] # "unspawned") <=> Shown(t)
            /\ (pc \in PopulatePcs /\ ~Shown(t)) =>
                   TaskFields(t, info) = TaskFields(t, launch_info)

\* gpus=false in the configuration file: no GPU thread, the others joined
C6_Witness ==
    /\ pc = "returned"
    /\ ~config.show_gpu
    /\ task["gpu"] = "unspawned"
    /\ task["res"] = "joined_ok"
    /\ task["pkgs"] = "joined_ok"
    /\ info.gpu_models = <<>>
    /\ info.pkgs = 3

\* the registry populate returns, from the registry at launch and from which
\* threads returned a value: a function of the outcomes, not of their order
FinalRegistry(i, tk, e) ==
    [i EXCEPT
        !.gpu_models = IF tk["gpu"] = "joined_ok" THEN detect_gpus(e) ELSE @,
        !.screen_width = IF tk["res"] = "joined_ok" THEN detect_resolution(e)[1] ELSE @,
        !.screen_height = IF tk["res"] = "joined_ok" THEN detect_resolution(e)[2] ELSE @,
        !.pkgs = IF tk["pkgs"] = "joined_ok" THEN detect_packages_fast(e)[1] ELSE @,
        !.pkgman_name = IF tk["pkgs"] = "joined_ok" THEN detect_packages_fast(e)[2] ELSE @]

\* a step in which a spawned thread terminates
ThreadTerminates == \E t \in Tasks : task[t] = "running" /\ task'[t] # "running"

\* C7: a step in which a thread terminates leaves the registry as it is, so
\* every write to it is a step of the main thread, and the registry populate
\* returns is fixed by the host and by which threads returned a value,
\* whatever the order in which they ran.
C7_OnlyMainThreadWrites ==
    /\ [][ThreadTerminates => info' = info]_vars
    /\ [](PopulateReturned => info = FinalRegistry(launch_info, task, env))

\* GPU and resolution stored, the package thread panicked
C7_Witness ==
    /\ pc = "returned"
    /\ task["gpu"] = "joined_ok"
    /\ task["res"] = "joined_ok"
    /\ task["pkgs"] = "joined_err"
    /\ info.gpu_models = <<"vc4">>
    /\ info.pkgs = 0

JoinPcs == {"join_gpu", "join_res", "join_pkgs"}

\* C8: populate has never returned while a launched thread is running, and in
\* a run where every launched thread terminates, a populate that has reached
\* its joins returns.
C8_JoinBlocksUntilDone ==
    /\ [](PopulateReturned => \A t \in Tasks : task[t] # "running")
    /\ (/\ <>[](task["gpu"] # "running")
        /\ <>[](task["res"] # "running")
        /\ <>[](task["pkgs"] # "running"))
           => [](pc \in JoinPcs => <>(pc = "returned"))

\* the main thread waits in the join of the resolution thread
C8_Witness ==
    /\ pc = "join_res"
    /\ task["res"] = "running"
    /\ task["pkgs"] = "running"
    /\ task["gpu"] = "joined_err"

\* the probe named p has run inside populate, and the registry is still as
\* populate left it
Probed(p) == InSeq(p, trace) /\ pc \in PopulatePcs

Blank(f) == f.present /\ Trim(f.text) = ""

Usable(f) == f.present /\ Trim(f.text) # ""

\* the first source is there without a usable ID value, a marker file exists
OsFallsBack(e) ==
    /\ e.os_release.present
    /\ FirstIdLine(Lines(e.os_release.text)).val = ""
    /\ e.debian_version \/ e.arch_release \/ e.fedora_release

MarkerName(e) ==
    IF e.debian_version THEN "debian" ELSE IF e.arch_release THEN "arch" ELSE "fedora"

\* lspci runs and lists no display device, the drm tree names a driver
GpuFallsBack(e) ==
    /\ which(e, "lspci") /\ e.lspci_out.present
    /\ LspciScan(Lines(e.lspci_out.text)) = <<>>
    /\ e.drm.present
    /\ DrmScan(e.drm.cards, <<>>) # <<>>

\* the framebuffer file is there and does not parse, xrandr reports a size
ResFallsBack(e) ==
    /\ e.fb0_virtual_size.present
    /\ ~FbSize(e.fb0_virtual_size.text).ok
    /\ xrandr_size(e).ok

\* C9: with the first source present but empty or invalid and the second
\* present and valid, each multi-source probe returns the second source's
\* value: host name, OS identity, hardware model, GPU list, resolution.
C9_SecondSourceUsed ==
    /\ (Probed("user_host") /\ Blank(env.proc_hostname) /\ Usable(env.etc_hostname)) =>
           info.host = Trim(env.etc_hostname.text)
    /\ (Probed("os") /\ OsFallsBack(env)) => info.os_name = MarkerName(env)
    /\ (Probed("model") /\ Blank(env.product_version) /\ Usable(env.product_name)
            /\ Trim(env.product_name.text) # Sentinel) =>
           info.model = Trim(env.product_name.text)
    /\ (task["gpu"] = "finished" /\ GpuFallsBack(env)) =>
           result["gpu"] = DrmScan(env.drm.cards, <<>>)
    /\ (task["res"] = "finished" /\ ResFallsBack(env)) =>
           result["res"] = PairOf(xrandr_size(env))

\* every source of every probe is absent; the configuration file is no source
AllAbsent(e) == [e EXCEPT !.config_file = Absent] = BareHost

\* the zero value of what task t returns
ZeroResult(t) ==
    CASE t = "gpu"  -> <<>>
      [] t = "res"  -> <<0, 0>>
      [] t = "pkgs" -> <<0, "">>

\* on a host without sources: every fact a probe has set so far, and every
\* value a thread has returned, is the zero value, with os and cpu standing
\* for the OS identity and the CPU model, and nothing has panicked
Defaults(os, cpu) ==
    AllAbsent(env) =>
        /\ pc # "panicked"
        /\ \A t \in Tasks : task[t] \in {"finished", "joined_ok"} =>
               result[t] = ZeroResult(t)
        /\ Probed("user_host") => info.user = "" /\ info.host = ""
        /\ Probed("os") => info.os_name = os
        /\ Probed("kernel") => info.kernel = ""
        /\ Probed("resolution") => info.screen_width = 0 /\ info.screen_height = 0
        /\ Probed("model") => info.model = ""
        /\ Probed("cpu") => info.cpu_model = cpu
        /\ Probed("memory") => info.ram_total = 0 /\ info.ram_used = 0
        /\ Probed("shell") => info.shell = ""
        /\ Probed("uptime") => info.uptime = 0
        /\ PopulateReturned => info.gpu_models = <<>> /\ info.pkgs = 0 /\ info.pkgman_name = ""

\* C10 as stated: on a host without sources every probe yields the zero value,
\* the empty string for the OS identity and the CPU model included.
C10_ZeroDefaults == Defaults("", "")

\* C10 amended: on a host without sources every probe yields the zero value
\* and nothing panics, except that the OS identity is "unknown" and the CPU
\* model is "Unknown CPU".
C10_ZeroOrPlaceholder == Defaults("unknown", "Unknown CPU")

\* populate has returned on the host without sources, all three threads joined
C10_Witness ==
    /\ AllAbsent(env)
    /\ pc = "returned"
    /\ task = [t \in Tasks |-> "joined_ok"]
    /\ info.os_name = "unknown"
    /\ info.cpu_model = "Unknown CPU"
    /\ info.shell = ""
    /\ result["pkgs"] = <<0, "">>

-----------------------------------------------------------------------------
(* Properties of the single probes *)

\* C11: no probe raises into its caller: the main thread never ends in a
\* panic, whatever the sources hold (a meminfo whose MemAvailable exceeds
\* MemTotal, or without MemTotal, included).
C11_NoProbeRaises == pc # "panicked"

\* a model file the probe accepts: readable, and its trimmed content neither
\* empty nor the sentinel
AcceptedFile(f) ==
    f.present /\ Trim(f.text) # "" /\ Trim(f.text) # "To Be Filled By O.E.M."

\* the model the claim prescribes on host e for a registry whose model was old
PrescribedModel(e, old) ==
    IF AcceptedFile(e.product_version) THEN Trim(e.product_version.text)
    ELSE IF AcceptedFile(e.product_name) THEN Trim(e.product_name.text)
    ELSE IF AcceptedFile(e.board_name) THEN Trim(e.board_name.text)
    ELSE old

\* C12: the step of populate that runs the hardware-model probe sets model to
\* the trimmed content of the first of product_version, product_name,
\* board_name that is readable, not empty and not the sentinel, and leaves
\* model as it was when there is none.
C12_FirstAcceptedModel ==
    [][(pc = "model" /\ pc' # "model") => info'.model = PrescribedModel(env, info.model)]_vars

\* the first file is empty, the second holds the sentinel between blanks, the
\* third is taken
C12_Witness ==
    /\ pc = "cpu"
    /\ env.product_version = Text("\n")
    /\ env.product_name = Text(" To Be Filled By O.E.M. \n")
    /\ env.board_name = Text("B450\n")
    /\ info.model = "B450"

IsProcessorLine(l) == StartsWith(l, "processor")

\* the logical processors /proc/cpuinfo lists: its "processor" entries
ProcessorEntries(e) == Len(SelectSeq(Lines(e.cpuinfo.text), IsProcessorLine))

\* /proc/cpuinfo is readable and gives no brand string
NoBrand(e) == e.cpuinfo.present /\ CpuScan(Lines(e.cpuinfo.text), "", 0).brand = ""

\* C13: when the CPU probe has run on a cpuinfo without brand string,
\* cpu_model is "<N> Cores" with N the number of logical processors listed
\* ("3 Cores" for three processor entries).
C13_CoresFallback ==
    (pc = "memory" /\ NoBrand(env)) =>
        info.cpu_model = ToString(ProcessorEntries(env)) \o " Cores"

NonZero(m) == m.count > 0

Fragment(m) == ToString(m.count) \o " (" \o m.name \o ")"

\* the fragments of the managers with a non-zero count, in the order of ms
Fragments(ms) ==
    [k \in 1..Len(SelectSeq(ms, NonZero)) |-> Fragment(SelectSeq(ms, NonZero)[k])]

\* C14: the package thread returns the sum of the counts of the five managers
\* (dpkg, pacman, rpm, flatpak, snap, in that order) and the ", "-join of the
\* "<count> (<name>)" fragments of those with a non-zero count; the label is
\* empty exactly when the total is 0, and a successful join stores both.
C14_PackageAggregation ==
    /\ [k \in 1..5 |-> manager_counts(env)[k].name]
           = <<"dpkg", "pacman", "rpm", "flatpak", "snap">>
    /\ task["pkgs"] \in {"finished", "joined_ok"} =>
           /\ result["pkgs"][1] = manager_counts(env)[1].count + manager_counts(env)[2].count
                                  + manager_counts(env)[3].count + manager_counts(env)[4].count
                                  + manager_counts(env)[5].count
           /\ result["pkgs"][2] = JoinStr(Fragments(manager_counts(env)), ", ")
           /\ (result["pkgs"][2] = "") <=> (result["pkgs"][1] = 0)
    /\ (task["pkgs"] = "joined_ok" /\ pc \in PopulatePcs) =>
           info.pkgs = result["pkgs"][1] /\ info.pkgman_name = result["pkgs"][2]

\* dpkg is there with nothing installed, rpm, flatpak and snap report packages
C14_Witness ==
    /\ pc = "returned"
    /\ task["pkgs"] = "joined_ok"
    /\ env.dpkg_status.present
    /\ info.pkgs = 4
    /\ info.pkgman_name = "2 (rpm), 1 (flatpak), 1 (snap)"

-----------------------------------------------------------------------------
(* Properties of repeated calls, of the cache codec and of the overrides *)

\* the registry without the two facts that vary with time
Timeless(i) == [i EXCEPT !.ram_used = 0, !.uptime = 0]

\* C15: when populate has returned from a second call on the registry it had
\* filled, with the same options on the same host and each thread ending as
\* it did in the first call, the registry equals field for field the one the
\* first call returned, ram_used and uptime left aside.
C15_PopulateIdempotent ==
    (pc = "returned" /\ prior.calls >= 1 /\ prior.outcome = task) =>
        Timeless(info) = Timeless(prior.returned)

\* the second call has returned with all three threads joined, as in the first
C15_Witness ==
    /\ pc = "returned"
    /\ prior.calls = 1
    /\ prior.outcome = [t \in Tasks |-> "joined_ok"]
    /\ task = [t \in Tasks |-> "joined_ok"]
    /\ info.gpu_models = <<"UHD Graphics 620 [5917] Lenovo [17aa]">>
    /\ info.pkgs = 3
    /\ prior.returned.pkgs = 3

\* the facts the cache file holds
CachedFields(i) ==
    <<i.user, i.host, i.os_name, i.model, i.kernel, i.cpu_model, i.screen_width,
      i.screen_height, i.shell, i.pkgs, i.pkgman_name, i.gpu_models>>

\* this run has read its registry from the file an earlier run wrote
ReadBack ==
    /\ pc = "overrides"
    /\ FromCache
    /\ prior.runs >= 1
    /\ prior.written.some
    /\ env.HOME.present
    /\ env.cache_creatable

\* C16: the registry read_cache returns from the file write_cache wrote has
\* the user, host, os_name, model, kernel, cpu_model, screen size, shell, pkgs,
\* pkgman_name and gpu_models of the registry that was written.
C16_CacheRoundTrip == ReadBack => CachedFields(info) = CachedFields(prior.written.val)

\* C17: the registry read_cache returns has the ram_total, ram_used and uptime
\* of the live probes made during the read, whatever lines the file holds.
C17_LiveMemoryAndUptime ==
    (pc = "overrides" /\ FromCache) =>
        /\ info.ram_total = get_memory(DefaultInfo, env, overflow_checks).info.ram_total
        /\ info.ram_used = get_memory(DefaultInfo, env, overflow_checks).info.ram_used
        /\ info.uptime = get_uptime(DefaultInfo, env).uptime

\* the file holds ram_total=77, ram_used=55 and uptime=11; the registry holds
\* the live values
C17_Witness ==
    /\ pc = "overrides"
    /\ FromCache
    /\ Contains(env.cache_file.text, "ram_total=77\nram_used=55\nuptime=11\n")
    /\ info.user = "old"
    /\ info.ram_total = 8
    /\ info.ram_used = 5
    /\ info.uptime = 3725

\* the distro override in force: the command line before the configuration
\* file, the empty string when neither gives one
ChosenDistro ==
    IF args.distro.some THEN args.distro.val
    ELSE IF file_overrides.distro.some THEN file_overrides.distro.val
    ELSE ""

\* populate is past its OS-identity step and has not returned to main yet
PastOsStep ==
    /\ pc \in PopulatePcs
    /\ ~FromCache
    /\ InSeq("os", trace) \/ InSeq("os_skipped", trace)

\* C18: populate invokes the OS-identity probe exactly when os_name is still
\* empty; with an override (command line before configuration file) os_name
\* is the override from then on, without one it is the probed value.
C18_OverrideWins ==
    PastOsStep =>
        /\ InSeq("os", trace) <=> (ChosenDistro = "")
        /\ info.os_name = IF ChosenDistro # "" THEN ChosenDistro ELSE detect_distro(env)

\* --distro debian beside distro="fedora" in the configuration file
C18_Witness ==
    /\ pc = "returned"
    /\ args.distro = Some("debian")
    /\ file_overrides.distro = Some("fedora")
    /\ InSeq("os_skipped", trace)
    /\ info.os_name = "debian"

\* C19: after populate has returned os_name is not empty.
C19_OsNameNeverEmpty == PopulateReturned => info.os_name # ""

\* C20: after the memory probe has run, ram_used <= ram_total.
C20_UsedAtMostTotal == Probed("memory") => info.ram_used <= info.ram_total

-----------------------------------------------------------------------------
(* Properties of the run of main and of the presentation *)

\* C21: once the substitution pass has run, the registry stays as that pass
\* left it: print_ascii, print_image and print_info change no field.
C21_PresentationReadOnly ==
    pc \in {"print_art", "print_info", "exit"} /\ InSeq("uwufy_all", trace) =>
        info = prior.finished

\* a logged join of populate, made or skipped for want of a handle
IsJoinOp(op) == op \in {"join_gpu", "none_gpu", "join_res", "none_res", "join_pkgs", "none_pkgs"}

\* a logged spawn statement of populate, spawned or not
IsSpawnOp(op) == op \in {"spawn_gpu", "no_gpu", "spawn_res", "no_res", "spawn_pkgs", "no_pkgs"}

\* the tasks of the join statements logged so far, in the order they ran
JoinedSoFar(tr) ==
    [k \in 1..Len(SelectSeq(tr, IsJoinOp)) |-> From(SelectSeq(tr, IsJoinOp)[k], 6)]

\* C22: in populate every spawn statement has run before the first join
\* starts, and the joins run in the order GPU, resolution, packages.
C22_FanOutThenJoin ==
    /\ \A j \in 1..Len(trace) : \A k \in 1..Len(trace) :
           (IsJoinOp(trace[j]) /\ IsSpawnOp(trace[k])) => k < j
    /\ (pc \in JoinPcs \/ PopulateReturned) =>
           Len(SelectSeq(trace, IsSpawnOp)) = 3
    /\ JoinedSoFar(trace)
           = SubSeq(<<"gpu", "res", "pkgs">>, 1, Len(JoinedSoFar(trace)))

\* the first join has not returned and all three threads are running
C22_Witness ==
    /\ pc = "join_gpu"
    /\ task = [t \in Tasks |-> "running"]
    /\ ~IsJoinOp(trace[Len(trace)])

IsIdLine(l) == StartsWith(l, "ID=")

\* the ID= lines of the release file, none when it cannot be read
IdLines(e) ==
    IF e.os_release.present THEN SelectSeq(Lines(e.os_release.text), IsIdLine) ELSE <<>>

\* what the marker files say, in the order Debian, Arch, Fedora
ByMarkers(e) ==
    CASE e.debian_version -> "debian"
      [] ~e.debian_version /\ e.arch_release -> "arch"
      [] ~e.debian_version /\ ~e.arch_release /\ e.fedora_release -> "fedora"
      [] OTHER -> "unknown"

PrescribedDistro(e) ==
    IF Len(IdLines(e)) > 0 THEN TrimMatches(From(IdLines(e)[1], 4), "\"") ELSE ByMarkers(e)

\* C23: the OS-identity probe gives the value of the first ID= line of the
\* release file without its double quotes; without such a line the marker
\* files decide in the order Debian, Arch, Fedora, and "unknown" is the result
\* when none of them exists.
C23_DistroSourceOrder ==
    (Probed("os") /\ ~FromCache) => info.os_name = PrescribedDistro(env)

\* a release file without ID line, the Debian and the Arch marker both there
C23_Witness ==
    /\ Probed("os")
    /\ ~FromCache
    /\ env.os_release.present
    /\ Len(IdLines(env)) = 0
    /\ env.debian_version
    /\ env.arch_release
    /\ info.os_name = "debian"

IsBrandLine(l) == StartsWith(l, "model name")

\* the "model name" lines of /proc/cpuinfo
BrandLines(e) == SelectSeq(Lines(e.cpuinfo.text), IsBrandLine)

\* the value of a "model name : value" line
BrandValue(l) == IF Find(l, ":") = 0 THEN "" ELSE Trim(After(l, Find(l, ":")))

\* C24: when /proc/cpuinfo has several "model name" lines and the first of
\* them carries a brand, cpu_model is the brand of that first line.
C24_FirstBrandKept ==
    (/\ pc = "memory"
     /\ env.cpuinfo.present
     /\ Len(BrandLines(env)) > 1
     /\ BrandValue(BrandLines(env)[1]) # "") =>
        info.cpu_model = BrandValue(BrandLines(env)[1])

\* the device-class field, the first quoted field of a `lspci -mm` line
ClassField(q) == IF Len(q) >= 2 THEN q[2] ELSE ""

IsDisplayLine(l) ==
    \/ Contains(ClassField(Split(l, "\"")), "VGA compatible controller")
    \/ Contains(ClassField(Split(l, "\"")), "3D controller")
    \/ Contains(ClassField(Split(l, "\"")), "Display controller")

\* vendor name then device name: the second and third quoted fields
VendorDevice(q, l) == IF Len(q) >= 6 THEN Trim(Trim(q[4]) \o " " \o Trim(q[6])) ELSE l

DisplayLines(e) == SelectSeq(Lines(e.lspci_out.text), IsDisplayLine)

\* C25: the GPU list read from lspci has one entry per display-class line,
\* in output order, each the line's vendor name followed by its device name.
C25_VendorThenDevice ==
    (task["gpu"] = "finished" /\ which(env, "lspci") /\ env.lspci_out.present) =>
        result["gpu"] =
            [k \in 1..Len(DisplayLines(env)) |->
                VendorDevice(Split(DisplayLines(env)[k], "\""), DisplayLines(env)[k])]

\* the framebuffer geometry when the pseudo-file parses, else the size the
\* display utility reports when DISPLAY is set and xrandr is on PATH, else
\* (0,0)
PrescribedSize(e) ==
    IF e.fb0_virtual_size.present /\ FbSize(e.fb0_virtual_size.text).ok
    THEN PairOf(FbSize(e.fb0_virtual_size.text))
    ELSE IF /\ e.DISPLAY.present
            /\ "xrandr" \in e.PATH
            /\ e.xrandr_out.present
            /\ XrandrScan(Lines(e.xrandr_out.text)).ok
    THEN PairOf(XrandrScan(Lines(e.xrandr_out.text)))
    ELSE <<0, 0>>

\* C26: detect_resolution returns the framebuffer geometry when that file
\* parses as "W,H"; otherwise, with DISPLAY set and xrandr on PATH, the two
\* numbers after "current" in the output of xrandr; otherwise (0,0).
C26_ResolutionSourceOrder ==
    /\ task["res"] = "finished" => result["res"] = PrescribedSize(env)
    /\ pc \in {"model", "cpu", "memory", "shell", "uptime"} =>
           <<info.screen_width, info.screen_height>> = PrescribedSize(env)

\* the framebuffer file is there and does not parse: the size comes from xrandr
C26_Witness ==
    /\ task["res"] = "finished"
    /\ env.fb0_virtual_size = Text("garbage\n")
    /\ env.DISPLAY.present
    /\ which(env, "xrandr")
    /\ result["res"] = <<1920, 1080>>

\* both sources would answer: the framebuffer geometry is the one returned
C26_FramebufferFirst ==
    /\ task["res"] = "finished"
    /\ env.fb0_virtual_size = Text("800,480\n")
    /\ env.DISPLAY.present
    /\ which(env, "xrandr")
    /\ XrandrScan(Lines(env.xrandr_out.text)).ok
    /\ result["res"] = <<800, 480>>

\* the place of the first op of the set ops in the trace, 0 when there is none
FirstAt(ops, tr) == First({k \in 1..Len(tr) : tr[k] \in ops})

\* the place of the last op of the set ops in the trace, 0 when there is none
LastAt(ops, tr) == Last({k \in 1..Len(tr) : tr[k] \in ops})

\* every op of the set early that was logged precedes every logged op of late
Precedes(early, late, tr) ==
    FirstAt(late, tr) > 0 => LastAt(early, tr) < FirstAt(late, tr)

\* the steps by which main obtains the registry
ObtainOps ==
    {"read_cache_hit", "read_cache_miss", "overrides"}
    \cup (PopulatePcs \ {"returned"})
    \cup {"os_skipped", "no_gpu", "no_res", "no_pkgs", "none_gpu", "none_res", "none_pkgs"}

CacheOps == {"write_cache", "no_write_cache"}

ArtOps == {"print_image", "print_ascii"}

\* os_name as main obtained it, in a run that called populate
ObtainedOsName == IF ChosenDistro # "" THEN ChosenDistro ELSE detect_distro(env)

\* C27: main obtains the registry before the cache-write step, writes the
\* cache before the substitution pass and runs that pass before any output;
\* a cache written in the run holds the registry as it was obtained, and the
\* art is chosen from the os_name that was obtained.
C27_RunOrdering ==
    /\ Precedes(ObtainOps, CacheOps, trace)
    /\ Precedes(CacheOps, {"uwufy_all"}, trace)
    /\ Precedes({"uwufy_all"}, ArtOps \cup {"print_info"}, trace)
    /\ Precedes(ArtOps, {"print_info"}, trace)
    /\ pc \in {"print_art", "print_info", "exit"} /\ FirstAt({"args"}, trace) > 0 =>
           FirstAt(ObtainOps, trace) > 0 /\ FirstAt(CacheOps, trace) > 0
               /\ FirstAt({"uwufy_all"}, trace) > 0
    /\ (/\ pc = "uwufy"
        /\ InSeq("write_cache", trace)
        /\ env.HOME.present
        /\ env.cache_creatable) => env.cache_file = Text(CacheText(info))
    /\ pc \in {"print_art", "print_info"} /\ ~InSeq("read_cache_hit", trace) =>
           info.os_name = ObtainedOsName

\* the cache was written, the pass then changed the registry, the art is out
C27_Witness ==
    /\ pc = "print_info"
    /\ InSeq("write_cache", trace)
    /\ prior.written.some
    /\ env.cache_file = Text(CacheText(prior.written.val))
    /\ info # prior.written.val
    /\ info.os_name = prior.written.val.os_name

IsFirstStatement(op) == op = PopulateOrder[1]

\* how many times populate was entered in the run
PopulateCalls(tr) == Len(SelectSeq(tr, IsFirstStatement))

\* C28: a run that reads a registry from the cache never calls populate; a
\* run that was not asked to read the cache, or whose read_cache returned
\* nothing, calls populate exactly once, on a default registry that carries
\* only the overrides.
C28_RegistryProducedOnce ==
    /\ InSeq("read_cache_hit", trace) =>
           args.read_cache /\ PopulateCalls(trace) = 0
               /\ \A k \in 1..Len(trace) : trace[k] \notin ObtainOps \ {"read_cache_hit", "overrides"}
    /\ pc = "overrides" =>
           (InSeq("read_cache_hit", trace) <=>
               args.read_cache /\ env.HOME.present /\ env.cache_file.present)
    /\ pc = PopulateOrder[1] =>
           /\ ~InSeq("read_cache_hit", trace)
           /\ [info EXCEPT !.os_name = "", !.image_name = None] = DefaultInfo
    /\ pc \in {"returned", "write_cache", "uwufy", "print_art", "print_info"} =>
           PopulateCalls(trace) = IF InSeq("read_cache_hit", trace) THEN 0 ELSE 1

\* the cache was read and the run went on to its end without populate
C28_Witness ==
    /\ pc = "print_info"
    /\ args.read_cache
    /\ InSeq("read_cache_hit", trace)
    /\ PopulateCalls(trace) = 0

\* the cache was asked for, read_cache returned nothing, populate ran once
C28_MissPopulates ==
    /\ pc = "returned"
    /\ args.read_cache
    /\ InSeq("read_cache_miss", trace)
    /\ PopulateCalls(trace) = 1

\* the keys of the show/hide flags in the configuration file
FlagKeys ==
    {"user", "os", "host", "kernel", "cpu", "gpus", "ram", "resolution", "shell", "pkgs",
     "uptime", "colors"}

\* the field of Configuration a flag key stands for
FlagOf(k) == IF k = "gpus" THEN "show_gpu" ELSE "show_" \o k

\* the trimmed line is "key = value", not a comment
LineSets(l, k, v) ==
    /\ ~StartsWith(l, "#")
    /\ Find(l, "=") > 0
    /\ Trim(Before(l, Find(l, "="))) = k
    /\ TrimMatches(Trim(After(l, Find(l, "="))), "\"") = v

\* some line of the configuration file sets key k to the value v
FileSets(e, k, v) ==
    /\ e.config_file.present
    /\ \E n \in 1..Len(Lines(e.config_file.text)) :
           LineSets(Trim(Lines(e.config_file.text)[n]), k, v)

\* C30: once the configuration file is parsed, a show/hide flag is off only
\* if the file sets its key to "false"; every other flag has its default,
\* on.
C30_FlagsUniform ==
    InSeq("parse_config", trace) =>
        \A k \in FlagKeys : ~config[FlagOf(k)] => FileSets(env, k, "false")

\* the host as it is and, when it changed under a probe, as it was before
Snapshots == {env} \cup (IF prior.earlier.some THEN {prior.earlier.val} ELSE {})

\* C29: the width and height stored by the cheap resolution pass are those of
\* one state of the host, and so are the ram_total and ram_used stored by
\* read_cache, also when the host changes while the probe runs.
C29_PairsFromOneSnapshot ==
    /\ pc = "model" =>
           \E h \in Snapshots :
               <<info.screen_width, info.screen_height>> = detect_resolution(h)
    /\ (pc = "overrides" /\ InSeq("read_cache_hit", trace)) =>
           \E h \in Snapshots :
               /\ info.ram_total = get_mem(h, overflow_checks).total
               /\ info.ram_used = get_mem(h, overflow_checks).used

\* the width of one state of the host stored with the height of another
C29_MixedResolution ==
    /\ pc = "model"
    /\ prior.earlier.some
    /\ info.screen_width = detect_resolution(prior.earlier.val)[1]
    /\ info.screen_height = detect_resolution(env)[2]
    /\ \A h \in Snapshots : <<info.screen_width, info.screen_height>> # detect_resolution(h)

\* the total of one state of the host stored with the used amount of another
C29_MixedMemory ==
    /\ pc = "overrides"
    /\ InSeq("read_cache_hit", trace)
    /\ prior.earlier.some
    /\ \A h \in Snapshots :
           <<info.ram_total, info.ram_used>>
               # <<get_mem(h, overflow_checks).total, get_mem(h, overflow_checks).used>>

=============================================================================
